---------------------------- MODULE Spec2Model ----------------------------
(***************************************************************************)
(* A model of the license server of src/app.py: the License, Activation   *)
(* and Device tables, the admin operations on licenses and the public     *)
(* activate / validate / deactivate / register_device handlers.           *)
(*                                                                         *)
(* Time is counted in ticks of one day.  The clock is only observed at    *)
(* whole ticks, so every observed instant lies on a minute boundary and   *)
(* int(time.time()) and now_local_naive() name the same instant.          *)
(***************************************************************************)
EXTENDS Integers, FiniteSets, Sequences, Bags, TLC

VARIABLES
    licenses,      \* the License table: a bag of rows
    activations,   \* the Activation table: a bag of rows
    devices,       \* the Device table: a bag of rows
    now,           \* the wall clock
    held,          \* the token a client has kept from an /activate response
    last,          \* the last request served and its response
    pre,           \* the tables as they were when that request arrived
    scen,          \* progress of the seat-release scenario (history)
    procs          \* the requests in progress, one per worker

vars == <<licenses, activations, devices, now, held, last, pre, scen, procs>>

-----------------------------------------------------------------------------
(* Bounds of the model *)

MaxTime == 2          \* the clock runs over 0..MaxTime
MaxCap == 2           \* max_devices is drawn from 1..MaxCap
MaxVerLen == 3        \* version strings of up to MaxVerLen characters

(* Program constants *)

TokenTTL == 1         \* 24 * 3600 seconds, in ticks
DefaultMaxDevices == 1
MaxKeyTries == 5      \* collision retries of create_license

None == 0 - 1         \* Python's None where an integer is expected
Unset == 0 - 2        \* a field the request body does not name
NoStr == "None"       \* Python's None where a string is expected
UnsetStr == "Unset"   \* a string field the request body does not name

Keys == {"K1", "K2"}
KID == "KID0"
PRIV == "priv0"
PUB_PEM == "pub0"
ADMIN_TOKEN == "change-me"
ALLOWED_PLANS == {"Free", "Plus", "Pro"}

Workers == {"w1", "w2"}

First(S) == CHOOSE x \in S : TRUE

-----------------------------------------------------------------------------
(* The clock *)

now_local_naive == now
now_local_minute_naive == now
time_time == now

-----------------------------------------------------------------------------
(* Tokens: security.py *)

\* A byte string is a sequence of numbers in 0..255, and base64 text a
\* sequence of digits: 0..63 are the letters of the URL-safe alphabet in
\* their order and Pad is "=".
Pad == 64

\* str.encode(): the UTF-8 bytes of the strings the model uses.
Ascii(s) ==
    CASE s = "" -> << >>
      [] s = "k" -> <<107>>
      [] s = "e" -> <<101>>
      [] s = "m" -> <<109>>
      [] s = "p" -> <<112>>
      [] s = "kid" -> <<107, 105, 100>>
      [] s = "K1" -> <<75, 49>>
      [] s = "K2" -> <<75, 50>>
      [] s = "KID0" -> <<75, 73, 68, 48>>
      [] s = "Free" -> <<70, 114, 101, 101>>
      [] s = "Plus" -> <<80, 108, 117, 115>>
      [] s = "Pro" -> <<80, 114, 111>>
      [] s = "Gold" -> <<71, 111, 108, 100>>
      [] s = "active" -> <<97, 99, 116, 105, 118, 101>>
      [] s = "revoked" -> <<114, 101, 118, 111, 107, 101, 100>>
      [] s = "deleted" -> <<100, 101, 108, 101, 116, 101, 100>>
      [] s = "memo" -> <<109, 101, 109, 111>>
      [] s = "K" -> <<75>>
      [] s = "k1" -> <<107, 49>>
      [] s = "ro" -> <<114, 111>>
      [] s = "act" -> <<97, 99, 116>>
      [] s = "mem" -> <<109, 101, 109>>
      [] s = "_" -> <<95>>
      [] OTHER -> <<63>>

Strings == {"", "k", "e", "m", "p", "kid", "K1", "K2", "KID0",
            "Free", "Plus", "Pro", "Gold"}

\* bytes.decode(): the string of the bytes, "?" for bytes of no string of
\* the model.
Decode(bytes) ==
    IF \E s \in Strings : Ascii(s) = bytes
    THEN CHOOSE s \in Strings : Ascii(s) = bytes
    ELSE "?"

\* msgpack: a str of up to 31 bytes is a fixstr (0xa0 + length, then the
\* bytes) and an int in 0..127 a positive fixint (the number itself).
PackStr(s) == <<160 + Len(Ascii(s))>> \o Ascii(s)
PackInt(n) == <<n>>

\* msgpack.packb(payload): a fixmap (0x80 + number of pairs) and the pairs
\* in the order of the dict.
packb(payload) ==
    <<128 + 5>>
    \o PackStr("k") \o PackStr(payload.k)
    \o PackStr("e") \o PackInt(payload.e)
    \o PackStr("m") \o PackInt(payload.m)
    \o PackStr("p") \o PackStr(payload.p)
    \o PackStr("kid") \o PackStr(payload.kid)

\* One msgpack object read from position i of body: a fixstr or a
\* positive fixint; ok is FALSE where the bytes are neither or run out.
Unpack1(body, i) ==
    IF i > Len(body) THEN [ok |-> FALSE, val |-> 0, next |-> i]
    ELSE IF body[i] < 128 THEN [ok |-> TRUE, val |-> body[i], next |-> i + 1]
    ELSE IF body[i] >= 160 /\ body[i] < 192 /\ i + (body[i] - 160) <= Len(body)
    THEN [ok |-> TRUE, val |-> Decode(SubSeq(body, i + 1, i + (body[i] - 160))),
          next |-> i + (body[i] - 160) + 1]
    ELSE [ok |-> FALSE, val |-> 0, next |-> i]

\* The n pairs of a map read from position i, added to the dict acc.
RECURSIVE UnpackPairs(_, _, _, _)
UnpackPairs(body, i, n, acc) ==
    IF n = 0 THEN [ok |-> i = Len(body) + 1, val |-> acc]
    ELSE LET key == Unpack1(body, i)
             val == Unpack1(body, key.next)
         IN  IF ~(key.ok /\ val.ok) THEN [ok |-> FALSE, val |-> acc]
             ELSE UnpackPairs(body, val.next, n - 1, (key.val :> val.val) @@ acc)

\* msgpack.unpackb(body, raw=False): the dict, or ok = FALSE where it
\* raises.
unpackb(body) ==
    IF Len(body) = 0 \/ body[1] < 128 \/ body[1] >= 144
    THEN [ok |-> FALSE, val |-> << >>]
    ELSE UnpackPairs(body, 2, body[1] - 128, [x \in {} |-> 0])

\* base64.urlsafe_b64encode(b): four digits for every three bytes, the
\* last group padded with "=".
RECURSIVE urlsafe_b64encode(_)
urlsafe_b64encode(b) ==
    IF Len(b) = 0 THEN << >>
    ELSE IF Len(b) = 1
    THEN <<b[1] \div 4, (b[1] % 4) * 16, Pad, Pad>>
    ELSE IF Len(b) = 2
    THEN <<b[1] \div 4, (b[1] % 4) * 16 + b[2] \div 16, (b[2] % 16) * 4, Pad>>
    ELSE <<b[1] \div 4, (b[1] % 4) * 16 + b[2] \div 16,
           (b[2] % 16) * 4 + b[3] \div 64, b[3] % 64>>
         \o urlsafe_b64encode(SubSeq(b, 4, Len(b)))

\* rstrip(b"=")
RECURSIVE rstrip_pad(_)
rstrip_pad(t) ==
    IF Len(t) > 0 /\ t[Len(t)] = Pad THEN rstrip_pad(SubSeq(t, 1, Len(t) - 1))
    ELSE t

b64u(b) == rstrip_pad(urlsafe_b64encode(b))

\* base64.urlsafe_b64decode(t) of a text whose length is a multiple of 4:
\* the decoder is not strict, so the bits of the last digit that reach
\* beyond the last whole byte are dropped, whatever they are.
RECURSIVE urlsafe_b64decode(_)
urlsafe_b64decode(t) ==
    IF Len(t) = 0 THEN [ok |-> TRUE, bytes |-> << >>]
    ELSE IF t[2] = Pad THEN [ok |-> FALSE, bytes |-> << >>]
    ELSE IF t[3] = Pad
    THEN [ok |-> TRUE, bytes |-> <<t[1] * 4 + t[2] \div 16>>]
    ELSE IF t[4] = Pad
    THEN [ok |-> TRUE, bytes |-> <<t[1] * 4 + t[2] \div 16,
                                   (t[2] % 16) * 16 + t[3] \div 4>>]
    ELSE LET rest == urlsafe_b64decode(SubSeq(t, 5, Len(t)))
         IN  [ok |-> rest.ok,
              bytes |-> <<t[1] * 4 + t[2] \div 16,
                          (t[2] % 16) * 16 + t[3] \div 4,
                          (t[3] % 4) * 64 + t[4]>> \o rest.bytes]

\* "=" * n
Pads(n) == [i \in 1..n |-> Pad]

b64u_d(s) == urlsafe_b64decode(s \o Pads((4 - (Len(s) % 4)) % 4))

\* The secret of a private key, one byte.
Secret(priv) == IF priv = PRIV THEN 7 ELSE 9

\* priv.sign(body): a byte string that only the holder of priv computes
\* and that fits this body alone.  It is written as the secret followed by
\* the body, filled up with zero bytes so that, like the 64 bytes of an
\* Ed25519 signature, its length is 1 modulo 3.
Ed25519Sign(priv, body) ==
    <<Secret(priv)>> \o body \o [i \in 1..((3 - (Len(body) % 3)) % 3) |-> 0]

KeyPair(priv, pub) == priv = PRIV /\ pub = PUB_PEM

\* pub.verify(sig, body): FALSE where it raises InvalidSignature.
Ed25519Verify(pub, sig, body) ==
    \E priv \in {PRIV} : KeyPair(priv, pub) /\ sig = Ed25519Sign(priv, body)

\* A token "body.sig" is kept as its two segments.
sign_token(priv, payload) ==
    LET body == packb(payload)
        sig == Ed25519Sign(priv, body)
    IN  [body |-> b64u(body), sig |-> b64u(sig)]

\* (mutant) the expiry in the token is not looked at
TokenExpired_Never(data) == FALSE

\* The expiry check of verify_token.
TokenExpired(data) == "e" \in DOMAIN data /\ data.e < time_time

\* verify_token returns the payload, or raises; "ok" tells which.
verify_token(pub, token) ==
    LET body == b64u_d(token.body)
        sig == b64u_d(token.sig)
    IN  IF ~(body.ok /\ sig.ok)
        THEN [ok |-> FALSE, error |-> "binascii.Error", data |-> << >>]
        ELSE IF ~Ed25519Verify(pub, sig.bytes, body.bytes)
        THEN [ok |-> FALSE, error |-> "InvalidSignature", data |-> << >>]
        ELSE LET data == unpackb(body.bytes)
             IN  IF ~data.ok
                 THEN [ok |-> FALSE, error |-> "UnpackException", data |-> << >>]
                 ELSE IF TokenExpired(data.val)
                 THEN [ok |-> FALSE, error |-> "expired", data |-> data.val]
                 ELSE [ok |-> TRUE, error |-> "", data |-> data.val]

NoToken == [body |-> << >>, sig |-> << >>]

-----------------------------------------------------------------------------
(* Key loading: security.py.  The environment of the process gives, for   *)
(* every place load_keys_from_env looks at, what it finds there for the   *)
(* private and for the public key: NoPem for a missing file or an unset   *)
(* or empty variable, else the text found.  A PEM text is a record of the *)
(* kind of key it holds and of the place it was put; a base64 variable    *)
(* holds the PEM text encoded.                                            *)

\* (mutant) the PEM variables are looked at before the secret files
Places_EnvFirst ==
    <<"PRIVATE_KEY_PEM", "/etc/secrets/license", "/etc/secrets/private",
      "PRIVATE_KEY_PEM_B64", "PRIVATE_KEY_FILE", "Key/license", "keys/private">>

\* The places in the order load_keys_from_env goes through them.
Places ==
    <<"/etc/secrets/license", "/etc/secrets/private", "PRIVATE_KEY_PEM",
      "PRIVATE_KEY_PEM_B64", "PRIVATE_KEY_FILE", "Key/license", "keys/private">>

NoPem == [kind |-> NoStr]

\* base64.b64decode(v).decode("utf-8") of a variable's value.
b64decode(v) == IF "b64" \in DOMAIN v THEN [ok |-> TRUE, text |-> v.b64]
                ELSE [ok |-> FALSE, text |-> NoPem]

\* _load_pems(priv_pem, pub_pem): the pair, or the RuntimeError.
load_pems(priv_pem, pub_pem) ==
    IF priv_pem.kind # "Ed25519" \/ pub_pem.kind # "Ed25519"
    THEN [ok |-> FALSE, error |-> "Keys must be Ed25519 PEM."]
    ELSE [ok |-> TRUE, priv |-> priv_pem, pub |-> pub_pem]

\* What load_keys_from_env does with the pair found at place.
LoadFrom(place, found) ==
    IF place = "PRIVATE_KEY_PEM_B64"
    THEN IF b64decode(found.priv).ok /\ b64decode(found.pub).ok
         THEN load_pems(b64decode(found.priv).text, b64decode(found.pub).text)
         ELSE [ok |-> FALSE, error |-> "binascii.Error"]
    ELSE load_pems(found.priv, found.pub)

\* load_keys_from_env(): the first place, from the i-th on, where both the
\* private and the public key are found decides.
RECURSIVE LoadKeysFrom(_, _)
LoadKeysFrom(env, i) ==
    IF i > Len(Places)
    THEN [ok |-> FALSE, error |-> "Missing key material."]
    ELSE LET found == env[Places[i]]
         IN  IF found.priv # NoPem /\ found.pub # NoPem
             THEN LoadFrom(Places[i], found)
             ELSE LoadKeysFrom(env, i + 1)

load_keys_from_env(env) == LoadKeysFrom(env, 1)

-----------------------------------------------------------------------------
(* Tables: app.py, Models.  A table is a bag of rows; the autoincrement  *)
(* id of a row, which only tells equal rows apart, is the row's copy in  *)
(* the bag.                                                               *)

\* The rows of tbl that are in S, with their copies.
Rows(tbl, S) == [r \in S |-> tbl[r]]

IsEmpty(tbl) == BagToSet(tbl) = {}

\* .first() of a query result that is not empty.
FirstRow(tbl) == First(BagToSet(tbl))

\* db.add(row); db.commit() of a new row.
InsertRow(tbl, row) == tbl (+) SetToBag({row})

\* (mutant) the delete also takes the rows of the hwid in other licenses
DeleteRow_AllOfHwid(tbl, row) ==
    Rows(tbl, {r \in BagToSet(tbl) : r.hwid # row.hwid})

\* (mutant) the row is kept
DeleteRow_Keep(tbl, row) == tbl

\* db.delete(row); db.commit().
DeleteRow(tbl, row) == tbl (-) SetToBag({row})

\* (mutant) the changed row is written as a new row
UpdateRow_AsInsert(tbl, old, new) == tbl (+) SetToBag({new})

\* db.add(row); db.commit() of a row loaded as old and changed to new.
UpdateRow(tbl, old, new) == (tbl (-) SetToBag({old})) (+) SetToBag({new})

\* License(key=key) with the column defaults.
License(id, key) ==
    [id |-> id, key |-> key, license |-> NoStr, status |-> "active",
     plan |-> NoStr, max_version |-> "0.0.1", max_devices |-> DefaultMaxDevices,
     expires_at |-> None, notes |-> NoStr,
     created_at |-> now_local_naive, updated_at |-> now_local_naive]

\* Activation(license_key=..., hwid=...) with the column defaults.  The
\* created_at column of a seat row, which no handler reads or compares, is
\* left out of the rows.
Activation(license_key, hwid) ==
    [license_key |-> license_key, hwid |-> hwid, last_seen_at |-> None]

\* Device(license_id=..., hwid=..., hostname=..., platform=..., app_ver=...).
Device(license_id, hwid, hostname, platform, app_ver) ==
    [license_id |-> license_id, hwid |-> hwid, hostname |-> hostname,
     platform |-> platform, app_ver |-> app_ver, last_seen_at |-> None]

\* ck_license_status
ck_license_status(lic) == lic.status \in {"active", "revoked", "deleted"}

\* (mutant) License.key carries no unique index
uq_license_None(tbl, lic) == TRUE

\* License.key is unique
uq_license_key(tbl, lic) == ~(\E l \in BagToSet(tbl) : l.key = lic.key)

\* (mutant) the Activation table has no unique constraint
uq_activation_None(tbl, row) == TRUE

\* uq_activation_license_hwid
uq_activation_license_hwid(tbl, row) ==
    ~(\E a \in BagToSet(tbl) : a.license_key = row.license_key /\ a.hwid = row.hwid)

\* uq_device_license_hwid
uq_device_license_hwid(tbl, row) ==
    ~(\E d \in BagToSet(tbl) : d.license_id = row.license_id /\ d.hwid = row.hwid)

\* INSERT into Activation: the table it leaves, or the IntegrityError of
\* the unique constraint.
InsertActivation(tbl, row) ==
    IF uq_activation_license_hwid(tbl, row)
    THEN [ok |-> TRUE, tbl |-> InsertRow(tbl, row)]
    ELSE [ok |-> FALSE, tbl |-> tbl]

\* (mutant) a new seat takes the place of the license's other Device rows
InsertDevice_Evict(tbl, row) ==
    [ok |-> TRUE,
     tbl |-> InsertRow(Rows(tbl, {d \in BagToSet(tbl) : d.license_id # row.license_id}),
                       row)]

\* INSERT into Device: the table it leaves, or the IntegrityError of the
\* unique constraint.
InsertDevice(tbl, row) ==
    IF uq_device_license_hwid(tbl, row)
    THEN [ok |-> TRUE, tbl |-> InsertRow(tbl, row)]
    ELSE [ok |-> FALSE, tbl |-> tbl]

\* select(License).where(License.key == key)
SelectLicense(tbl, key) == Rows(tbl, {l \in BagToSet(tbl) : l.key = key})

\* select(Activation).where(Activation.license_key == key)
SelectActivations(tbl, key) ==
    Rows(tbl, {a \in BagToSet(tbl) : a.license_key = key})

\* select(Activation).where(license_key == key, hwid == hwid)
SelectActivation(tbl, key, hwid) ==
    Rows(tbl, {a \in BagToSet(tbl) : a.license_key = key /\ a.hwid = hwid})

\* select(Device).where(Device.license_id == id, Device.hwid == hwid)
SelectDevice(tbl, id, hwid) ==
    Rows(tbl, {d \in BagToSet(tbl) : d.license_id = id /\ d.hwid = hwid})

\* select(func.count(Device.id)).where(Device.license_id == id)
CountDevices(tbl, id) ==
    BagCardinality(Rows(tbl, {d \in BagToSet(tbl) : d.license_id = id}))

\* The next autoincrement id of the License table (rows are never removed).
NextLicenseId(tbl) == BagCardinality(tbl) + 1

-----------------------------------------------------------------------------
(* The version gate: _parse_semver and _version_lte.  A version string is *)
(* a sequence of characters, NoneVer the value None.                      *)

NoneVer == <<NoStr>>

Digits == {"0", "1", "2", "3", "4", "5", "6", "7", "8", "9"}

DigitVal(c) ==
    CASE c = "0" -> 0 [] c = "1" -> 1 [] c = "2" -> 2 [] c = "3" -> 3
      [] c = "4" -> 4 [] c = "5" -> 5 [] c = "6" -> 6 [] c = "7" -> 7
      [] c = "8" -> 8 [] c = "9" -> 9

\* str.strip(): the leading and trailing white space goes.
RECURSIVE str_strip(_)
str_strip(s) ==
    IF s = << >> THEN s
    ELSE IF Head(s) = " " THEN str_strip(Tail(s))
    ELSE IF s[Len(s)] = " " THEN str_strip(SubSeq(s, 1, Len(s) - 1))
    ELSE s

\* str.split("."): the pieces between the dots, one more than the dots.
RECURSIVE str_split(_, _)
str_split(s, cur) ==
    IF s = << >> THEN <<cur>>
    ELSE IF Head(s) = "." THEN <<cur>> \o str_split(Tail(s), << >>)
    ELSE str_split(Tail(s), Append(cur, Head(s)))

\* The value of a run of digits, read from the left.
RECURSIVE DigitsVal(_, _)
DigitsVal(ds, acc) ==
    IF ds = << >> THEN acc ELSE DigitsVal(Tail(ds), (acc * 10) + DigitVal(Head(ds)))

\* int(p): white space around the number and one sign before it are
\* accepted; anything else raises ValueError (ok is FALSE).
int(p) ==
    LET t == str_strip(p)
        signed == t # << >> /\ Head(t) \in {"+", "-"}
        ds == IF signed THEN Tail(t) ELSE t
    IN  IF ds = << >> \/ \E i \in 1..Len(ds) : ds[i] \notin Digits
        THEN [ok |-> FALSE, val |-> 0]
        ELSE [ok |-> TRUE,
              val |-> IF signed /\ Head(t) = "-" THEN 0 - DigitsVal(ds, 0)
                      ELSE DigitsVal(ds, 0)]

\* (mutant) only major and minor are read
parse_semver_Two(s) ==
    IF s = NoneVer \/ s = << >> THEN <<0, 0, 0>>
    ELSE LET parts == str_split(str_strip(s), << >>)
         IN  [i \in 1..3 |->
                IF i <= 2 /\ i <= Len(parts) /\ parts[i] # << >> /\ int(parts[i]).ok
                THEN int(parts[i]).val ELSE 0]

\* _parse_semver(s)
parse_semver(s) ==
    IF s = NoneVer \/ s = << >> THEN <<0, 0, 0>>
    ELSE LET parts == str_split(str_strip(s), << >>)
         IN  [i \in 1..3 |->
                IF i <= Len(parts) /\ parts[i] # << >>
                THEN (IF int(parts[i]).ok THEN int(parts[i]).val ELSE 0)
                ELSE 0]

\* x <= y on two tuples of three: the first place where they differ
\* decides, and equal tuples compare true.
tuple_le(x, y) ==
    LET diff == {i \in 1..3 : x[i] # y[i]}
    IN  IF diff = {} THEN TRUE
        ELSE LET i == CHOOSE j \in diff : \A k \in diff : j <= k
             IN  x[i] < y[i]

\* _version_lte(a, b)
version_lte(a, b) == tuple_le(parse_semver(a), parse_semver(b))

\* The characters of the version strings the requests and licenses carry.
Chars(s) ==
    CASE s = NoStr -> NoneVer
      [] s = "" -> << >>
      [] s = "0.0.1" -> <<"0", ".", "0", ".", "1">>
      [] s = "1.0.0" -> <<"1", ".", "0", ".", "0">>
      [] s = "2.0.0" -> <<"2", ".", "0", ".", "0">>

-----------------------------------------------------------------------------
(* Responses *)

HTTPException(status_code, detail) ==
    [status_code |-> status_code, detail |-> detail]

Ok(body) == [status_code |-> 200, detail |-> "ok", body |-> body]

\* An exception no handler catches.
ServerError == HTTPException(500, "Internal Server Error")

Pass == [status_code |-> 0, detail |-> "pass"]

\* f"Seats reached ({lic.max_devices})"
SeatsReached(max_devices) ==
    [status_code |-> 403, detail |-> "Seats reached", max_devices |-> max_devices]

-----------------------------------------------------------------------------
(* The public handlers: activate / validate / deactivate / register_device *)

\* (mutant) the expiry comparison reversed
IsExpired_Reversed(lic) == lic.expires_at # None /\ lic.expires_at > now_local_naive

\* lic.expires_at and lic.expires_at < now_local_naive()
IsExpired(lic) == lic.expires_at # None /\ lic.expires_at < now_local_naive

\* (mutant) the expiry looked at before the status
LicenseGate_ExpiryFirst(rows) ==
    IF IsEmpty(rows)
    THEN HTTPException(403, "License invalid")
    ELSE IF IsExpired(FirstRow(rows))
    THEN HTTPException(403, "License expired")
    ELSE IF FirstRow(rows).status # "active"
    THEN HTTPException(403, "License invalid")
    ELSE Pass

\* The first two checks of activate and of register_device, on the result
\* of the license query.
LicenseGate(rows) ==
    IF IsEmpty(rows) \/ FirstRow(rows).status # "active"
    THEN HTTPException(403, "License invalid")
    ELSE IF IsExpired(FirstRow(rows))
    THEN HTTPException(403, "License expired")
    ELSE Pass

\* (mutant) the cap check off by one
SeatsFull_OffByOne(used, lic) == used > lic.max_devices

\* len(actives) >= lic.max_devices
SeatsFull(used, lic) == used >= lic.max_devices

\* (mutant) the cap looked at before the hwid's own seat
ActivateSeat_CapFirst(actives, lic, hwid) ==
    IF SeatsFull(BagCardinality(actives), lic) THEN "full"
    ELSE IF \E a \in BagToSet(actives) : a.hwid = hwid THEN "seated"
    ELSE "insert"

\* (mutant) activate never counts the seats
ActivateSeat_Uncapped(actives, lic, hwid) ==
    IF \E a \in BagToSet(actives) : a.hwid = hwid THEN "seated" ELSE "insert"

\* What activate does about the seat, given the Activation rows it read.
ActivateSeat(actives, lic, hwid) ==
    IF \E a \in BagToSet(actives) : a.hwid = hwid THEN "seated"
    ELSE IF SeatsFull(BagCardinality(actives), lic) THEN "full"
    ELSE "insert"

\* The payload activate signs, and its response body.
TokenPayload(lic) ==
    [k |-> lic.key, e |-> time_time + TokenTTL, m |-> lic.max_devices,
     p |-> IF lic.plan = NoStr THEN "" ELSE lic.plan, kid |-> KID]

ActivateBody(lic) ==
    [token |-> sign_token(PRIV, TokenPayload(lic)), exp |-> time_time + TokenTTL,
     kid |-> KID, plan |-> lic.plan, max_devices |-> lic.max_devices]

\* (mutant) activate refuses a client newer than the license's max_version
activate_Gated(data) ==
    LET rows == SelectLicense(licenses, data.key)
        gate == LicenseGate(rows)
    IN  IF gate # Pass THEN [resp |-> gate, activations |-> activations]
        ELSE IF /\ data.app_ver # NoStr
                /\ ~version_lte(Chars(data.app_ver), Chars(FirstRow(rows).max_version))
        THEN [resp |-> HTTPException(403, "Version not allowed"),
              activations |-> activations]
        ELSE
        LET lic == FirstRow(rows)
            actives == SelectActivations(activations, lic.key)
            seat == ActivateSeat(actives, lic, data.hwid)
        IN  IF seat = "full"
            THEN [resp |-> SeatsReached(lic.max_devices), activations |-> activations]
            ELSE IF seat = "insert"
            THEN LET ins == InsertActivation(activations,
                                             Activation(lic.key, data.hwid))
                 IN  IF ins.ok
                     THEN [resp |-> Ok(ActivateBody(lic)), activations |-> ins.tbl]
                     ELSE [resp |-> ServerError, activations |-> activations]
            ELSE [resp |-> Ok(ActivateBody(lic)), activations |-> activations]

\* activate(data): the response and the Activation table it leaves.
activate(data) ==
    LET rows == SelectLicense(licenses, data.key)
        gate == LicenseGate(rows)
    IN  IF gate # Pass THEN [resp |-> gate, activations |-> activations]
        ELSE
        LET lic == FirstRow(rows)
            actives == SelectActivations(activations, lic.key)
            seat == ActivateSeat(actives, lic, data.hwid)
        IN  IF seat = "full"
            THEN [resp |-> SeatsReached(lic.max_devices), activations |-> activations]
            ELSE IF seat = "insert"
            THEN LET ins == InsertActivation(activations,
                                             Activation(lic.key, data.hwid))
                 IN  IF ins.ok
                     THEN [resp |-> Ok(ActivateBody(lic)), activations |-> ins.tbl]
                     ELSE [resp |-> ServerError, activations |-> activations]
            ELSE [resp |-> Ok(ActivateBody(lic)), activations |-> activations]

\* What validate does to the seat row it found.
ValidateTouch(act) == [act EXCEPT !.last_seen_at = now_local_naive]

\* (mutant) validate refuses an expired license as activate does
ValidateLicenseInvalid_Gate(rows) == LicenseGate(rows) # Pass

\* (mutant) validate only checks that the license exists
ValidateLicenseInvalid_NoStatus(rows) == IsEmpty(rows)

\* Whether validate rejects the license it found for the token's key.
ValidateLicenseInvalid(rows) == IsEmpty(rows) \/ FirstRow(rows).status # "active"

\* validate_token(data): the response and the Activation table it leaves.
validate_token(data) ==
    LET v == verify_token(PUB_PEM, data.token)
    IN  IF ~v.ok THEN [resp |-> HTTPException(401, "Invalid token"),
                       activations |-> activations]
        ELSE
        LET rows == SelectLicense(licenses, v.data.k)
        IN  IF ValidateLicenseInvalid(rows)
            THEN [resp |-> HTTPException(403, "License invalid"),
                  activations |-> activations]
            ELSE
            LET lic == FirstRow(rows)
                act == SelectActivation(activations, lic.key, data.hwid)
            IN  IF IsEmpty(act)
                THEN [resp |-> HTTPException(403, "Device not activated"),
                      activations |-> activations]
                ELSE [resp |-> Ok([ok |-> TRUE, plan |-> lic.plan,
                                   max_devices |-> lic.max_devices,
                                   kid |-> v.data.kid]),
                      activations |-> UpdateRow(activations, FirstRow(act),
                                                ValidateTouch(FirstRow(act)))]

\* (mutant) deactivate looks at the license first, as activate does
deactivate_Gated(data) ==
    LET gate == LicenseGate(SelectLicense(licenses, data.key))
        act == SelectActivation(activations, data.key, data.hwid)
    IN  IF gate # Pass THEN [resp |-> gate, activations |-> activations]
        ELSE IF IsEmpty(act)
        THEN [resp |-> HTTPException(404, "Activation not found"),
              activations |-> activations]
        ELSE [resp |-> Ok([ok |-> TRUE]),
              activations |-> DeleteRow(activations, FirstRow(act))]

\* deactivate(data): the response and the Activation table it leaves.
deactivate(data) ==
    LET act == SelectActivation(activations, data.key, data.hwid)
    IN  IF IsEmpty(act)
        THEN [resp |-> HTTPException(404, "Activation not found"),
              activations |-> activations]
        ELSE [resp |-> Ok([ok |-> TRUE]),
              activations |-> DeleteRow(activations, FirstRow(act))]

\* The update register_device makes to the Device row it found.
RegisterTouch(dev, data) ==
    [dev EXCEPT
        !.hostname = IF data.hostname # NoStr /\ data.hostname # "" THEN data.hostname ELSE @,
        !.platform = IF data.platform # NoStr /\ data.platform # "" THEN data.platform ELSE @,
        !.app_ver = IF data.app_ver # NoStr /\ data.app_ver # "" THEN data.app_ver ELSE @,
        !.last_seen_at = now_local_naive]

\* register_device(data): the response and the Device table it leaves.
register_device(data) ==
    LET rows == SelectLicense(licenses, data.key)
        gate == LicenseGate(rows)
    IN  IF gate # Pass THEN [resp |-> gate, devices |-> devices]
        ELSE
        LET lic == FirstRow(rows)
            dev == SelectDevice(devices, lic.id, data.hwid)
        IN  IF IsEmpty(dev)
            THEN IF SeatsFull(CountDevices(devices, lic.id), lic)
                 THEN [resp |-> SeatsReached(lic.max_devices), devices |-> devices]
                 ELSE
                 LET ins == InsertDevice(devices,
                                         Device(lic.id, data.hwid, data.hostname,
                                                data.platform, data.app_ver))
                 IN  IF ins.ok
                     THEN [resp |-> Ok([ok |-> TRUE, license_key |-> lic.key,
                                        used_devices |-> CountDevices(ins.tbl, lic.id),
                                        max_devices |-> lic.max_devices]),
                           devices |-> ins.tbl]
                     ELSE [resp |-> ServerError, devices |-> devices]
            ELSE
            LET tbl == UpdateRow(devices, FirstRow(dev),
                                 RegisterTouch(FirstRow(dev), data))
            IN  [resp |-> Ok([ok |-> TRUE, license_key |-> lic.key,
                              used_devices |-> CountDevices(tbl, lic.id),
                              max_devices |-> lic.max_devices]),
                 devices |-> tbl]

-----------------------------------------------------------------------------
(* Status of a license: the read handlers.  The requests of the model     *)
(* carry no app_ver, so the responses have no app_ver / app_allowed.      *)

\* An ISO-8601 string with the +07:00 offset, None for None.
to_iso_local_naive(x) ==
    IF x = None THEN NoStr ELSE [local |-> x, offset |-> "+07:00"]

\* used_devices_count of _public_license_dict, counts.get(lic.id, 0) of
\* list_licenses.
UsedDevices(lic) == CountDevices(devices, lic.id)

\* _public_license_dict(lic, db, app_ver): app_ver and app_allowed are
\* added when an app_ver came with the request and max_version is not empty.
public_license_dict(lic, app_ver) ==
    LET resp ==
          [key |-> lic.key, status |-> lic.status, plan |-> lic.plan,
           max_devices |-> lic.max_devices, used_devices |-> UsedDevices(lic),
           max_version |-> lic.max_version,
           expires_at |-> to_iso_local_naive(lic.expires_at),
           license |-> lic.license, kid |-> KID, now |-> time_time,
           expired |-> IsExpired(lic)]
    IN  IF app_ver # NoStr /\ lic.max_version \notin {NoStr, ""}
        THEN resp @@ [app_ver |-> app_ver,
                      app_allowed |-> version_lte(Chars(app_ver),
                                                  Chars(lic.max_version))]
        ELSE resp

\* (mutant) the read refuses an expired license as activate does
PublicStatus_Gated(key, app_ver) ==
    LET rows == SelectLicense(licenses, key)
    IN  IF IsEmpty(rows) THEN HTTPException(404, "Not found")
        ELSE IF LicenseGate(rows) # Pass THEN LicenseGate(rows)
        ELSE Ok(public_license_dict(FirstRow(rows), app_ver))

\* The body of license_lookup and of get_license_public for key.
PublicStatus(key, app_ver) ==
    LET rows == SelectLicense(licenses, key)
    IN  IF IsEmpty(rows) THEN HTTPException(404, "Not found")
        ELSE IF FirstRow(rows).status # "active"
        THEN HTTPException(403, "License invalid")
        ELSE Ok(public_license_dict(FirstRow(rows), app_ver))

license_lookup(data) == PublicStatus(data.key, data.app_ver)

get_license_public(key, app_ver) == PublicStatus(key, app_ver)

\* One item of the list_licenses response.
LicenseItem(lic) ==
    [id |-> lic.id, key |-> lic.key, status |-> lic.status, plan |-> lic.plan,
     max_devices |-> lic.max_devices, used_devices |-> UsedDevices(lic),
     max_version |-> lic.max_version,
     expires_at |-> to_iso_local_naive(lic.expires_at),
     created_at |-> to_iso_local_naive(lic.created_at),
     updated_at |-> to_iso_local_naive(lic.updated_at)]

\* lower() of SQL on ASCII text.
lower(bytes) == [i \in 1..Len(bytes) |->
                    IF bytes[i] \in 65..90 THEN bytes[i] + 32 ELSE bytes[i]]

\* text LIKE pattern: % stands for any run of characters and _ for any one.
RECURSIVE LikeMatch(_, _)
LikeMatch(pattern, text) ==
    IF pattern = << >> THEN text = << >>
    ELSE IF Head(pattern) = 37
    THEN LikeMatch(Tail(pattern), text)
         \/ (text # << >> /\ LikeMatch(pattern, Tail(text)))
    ELSE /\ text # << >>
         /\ Head(pattern) = 95 \/ Head(pattern) = Head(text)
         /\ LikeMatch(Tail(pattern), Tail(text))

\* column.ilike(like): NULL matches nothing.
ilike(col, like) ==
    col # NoStr /\ LikeMatch(lower(like), lower(Ascii(col)))

\* (mutant) the search looks at the notes instead of the status
QFilter_Notes(lic, q) ==
    LET like == <<37>> \o Ascii(q) \o <<37>>
    IN  ilike(lic.key, like) \/ ilike(lic.plan, like) \/ ilike(lic.notes, like)

\* The filter of list_licenses for a search term q.
QFilter(lic, q) ==
    LET like == <<37>> \o Ascii(q) \o <<37>>
    IN  ilike(lic.key, like) \/ ilike(lic.plan, like) \/ ilike(lic.status, like)

\* list_licenses(q=q) with no other filter, on a table that fits one page:
\* the items (their order is left out) and their number.
list_licenses_where(q) ==
    LET found == Rows(licenses, {lic \in BagToSet(licenses) :
                                    q \notin {NoStr, ""} => QFilter(lic, q)})
    IN  [resp |-> Ok([items |-> {LicenseItem(lic) : lic \in BagToSet(found)},
                      total |-> BagCardinality(found), page |-> 1]),
         licenses |-> licenses]

\* list_licenses() without filters.
list_licenses == list_licenses_where(NoStr)

-----------------------------------------------------------------------------
(* Admin authentication *)

\* str.strip() on the header values the model sends.
strip(s) == IF s = " change-me " THEN "change-me" ELSE s

\* (mutant) either credential opens the door, also next to a wrong bearer
admin_auth_Either(auth) ==
    auth.creds = ADMIN_TOKEN \/ strip(auth.x_admin_token) = ADMIN_TOKEN

\* admin_auth(creds, x_admin_token): TRUE, or the 401 it raises.
admin_auth(auth) ==
    LET token0 == auth.creds
        token == IF token0 \in {NoStr, ""} /\ auth.x_admin_token \notin {NoStr, ""}
                 THEN strip(auth.x_admin_token) ELSE token0
    IN  token = ADMIN_TOKEN

Unauthorized == HTTPException(401, "Unauthorized")

-----------------------------------------------------------------------------
(* Admin CRUD *)

Truthy(s) == s # NoStr /\ s # ""

\* The key loop of create_license: the key it settles on, or "" when it
\* gives up.  draws are the keys generate_short_key returns, in order.
RECURSIVE KeyLoop_OneLess(_, _, _, _)
\* (mutant) the loop gives up one regeneration early
KeyLoop_OneLess(tbl, key, tries, draws) ==
    IF IsEmpty(SelectLicense(tbl, key)) THEN key
    ELSE IF tries + 1 >= MaxKeyTries THEN ""
    ELSE KeyLoop_OneLess(tbl, Head(draws), tries + 1, Tail(draws))

RECURSIVE KeyLoop(_, _, _, _)
KeyLoop(tbl, key, tries, draws) ==
    IF IsEmpty(SelectLicense(tbl, key)) THEN key
    ELSE IF tries + 1 > MaxKeyTries THEN ""
    ELSE KeyLoop(tbl, Head(draws), tries + 1, Tail(draws))

\* The first candidate key and the draws left after it.
FirstKey(data, draws) ==
    IF Truthy(data.key) THEN [key |-> data.key, rest |-> draws]
    ELSE [key |-> Head(draws), rest |-> Tail(draws)]

\* The License row create_license builds for key.
NewLicense(tbl, key, data) ==
    [License(NextLicenseId(tbl), key) EXCEPT
        !.license = IF data.license # NoStr THEN data.license ELSE @,
        !.plan = IF data.plan # NoStr THEN data.plan ELSE @,
        !.max_devices = IF data.max_devices # None THEN data.max_devices ELSE @,
        !.max_version = IF data.max_version # NoStr THEN data.max_version ELSE @,
        !.notes = IF data.notes # NoStr THEN data.notes ELSE @,
        !.expires_at = IF data.expires_days # None /\ data.expires_days # 0
                       THEN now_local_minute_naive + data.expires_days ELSE @]

\* Field(ge=1) on max_devices and expires_days.
ge1(v) == v \in {None, Unset} \/ v >= 1

\* create_license(data): the response and the License table it leaves.
create_license(data, draws) ==
    IF ~(ge1(data.max_devices) /\ ge1(data.expires_days) /\ data.max_devices # None)
    THEN [resp |-> HTTPException(422, "validation"), licenses |-> licenses]
    ELSE IF Truthy(data.plan) /\ data.plan \notin ALLOWED_PLANS
    THEN [resp |-> HTTPException(422, "plan"), licenses |-> licenses]
    ELSE
    LET first == FirstKey(data, draws)
        key == KeyLoop(licenses, first.key, 0, first.rest)
    IN  IF key = ""
        THEN [resp |-> HTTPException(500, "Cannot generate unique key"),
              licenses |-> licenses]
        ELSE
        LET lic == NewLicense(licenses, key, data)
        IN  IF ~(uq_license_key(licenses, lic) /\ ck_license_status(lic))
            THEN [resp |-> HTTPException(409, "Key exists"), licenses |-> licenses]
            ELSE [resp |-> Ok([id |-> lic.id, key |-> lic.key]),
                  licenses |-> InsertRow(licenses, lic)]

\* (mutant) the patch replaces the record: notes it does not name are cleared
MergePatch_Replace(lic, data) ==
    [lic EXCEPT
        !.status = IF data.status # UnsetStr THEN data.status ELSE @,
        !.plan = IF data.plan # UnsetStr THEN data.plan ELSE @,
        !.max_devices = IF data.max_devices # Unset THEN data.max_devices ELSE @,
        !.notes = IF data.notes # UnsetStr THEN data.notes ELSE NoStr,
        !.expires_at = IF data.expires_days \notin {Unset, None}
                       THEN now_local_minute_naive + data.expires_days ELSE @]

\* The loop of update_license over the fields the patch names.
MergePatch(lic, data) ==
    [lic EXCEPT
        !.status = IF data.status # UnsetStr THEN data.status ELSE @,
        !.plan = IF data.plan # UnsetStr THEN data.plan ELSE @,
        !.max_devices = IF data.max_devices # Unset THEN data.max_devices ELSE @,
        !.notes = IF data.notes # UnsetStr THEN data.notes ELSE @,
        !.expires_at = IF data.expires_days \notin {Unset, None}
                       THEN now_local_minute_naive + data.expires_days ELSE @]

\* (mutant) updated_at is left alone
TouchUpdated_Keep(lic) == lic

\* lic.updated_at = now_local_naive()
TouchUpdated(lic) == [lic EXCEPT !.updated_at = now_local_naive]

\* The row update_license writes.
ApplyPatch(lic, data) == TouchUpdated(MergePatch(lic, data))

\* The NOT NULL columns a License row must fill.
not_null_license(lic) == lic.status # NoStr /\ lic.max_devices # None

\* update_license(key, data): the response and the License table it leaves.
update_license(key, data) ==
    IF ~(ge1(data.max_devices) /\ ge1(data.expires_days))
    THEN [resp |-> HTTPException(422, "validation"), licenses |-> licenses]
    ELSE
    LET rows == SelectLicense(licenses, key)
    IN  IF IsEmpty(rows)
        THEN [resp |-> HTTPException(404, "Not found"), licenses |-> licenses]
        ELSE
        LET lic == ApplyPatch(FirstRow(rows), data)
        IN  IF ~(not_null_license(lic) /\ ck_license_status(lic))
            THEN [resp |-> ServerError, licenses |-> licenses]
            ELSE [resp |-> Ok([ok |-> TRUE]),
                  licenses |-> UpdateRow(licenses, FirstRow(rows), lic)]

\* get_license_detail(key): the license and its Activation rows.
get_license_detail(key) ==
    LET rows == SelectLicense(licenses, key)
    IN  IF IsEmpty(rows)
        THEN [resp |-> HTTPException(404, "Not found"), licenses |-> licenses]
        ELSE [resp |-> Ok([license |-> FirstRow(rows),
                           activations |-> SelectActivations(activations, key)]),
              licenses |-> licenses]

\* list_activations(key): all Activation rows, or those of key.
list_activations(key) ==
    [resp |-> Ok(IF Truthy(key) THEN SelectActivations(activations, key)
                 ELSE activations),
     licenses |-> licenses]

\* The row delete_license writes.
MarkDeleted(lic) == [lic EXCEPT !.status = "deleted"]

\* delete_license(key): the response and the License table it leaves.
delete_license(key) ==
    LET rows == SelectLicense(licenses, key)
    IN  IF IsEmpty(rows)
        THEN [resp |-> HTTPException(404, "Not found"), licenses |-> licenses]
        ELSE [resp |-> Ok([ok |-> TRUE]),
              licenses |-> UpdateRow(licenses, FirstRow(rows),
                                     MarkDeleted(FirstRow(rows)))]

\* The row revoke writes.
MarkRevoked(lic) == [lic EXCEPT !.status = "revoked"]

\* revoke(key): the response and the License table it leaves.
revoke(key) ==
    LET rows == SelectLicense(licenses, key)
    IN  IF IsEmpty(rows)
        THEN [resp |-> HTTPException(404, "Not found"), licenses |-> licenses]
        ELSE [resp |-> Ok([ok |-> TRUE]),
              licenses |-> UpdateRow(licenses, FirstRow(rows),
                                     MarkRevoked(FirstRow(rows)))]

-----------------------------------------------------------------------------
(* Requests served one at a time: each handler runs from its first query  *)
(* to its response with no other request in between.                      *)

Snapshot ==
    [licenses |-> licenses, activations |-> activations, devices |-> devices,
     now |-> now]

Idle == [pc |-> "idle"]

ScenOff == [stage |-> "off"]
ScenIdle == [stage |-> "idle"]

\* The seat-release scenario: a hwid b is refused a seat on a full license,
\* then a seated hwid a is deactivated, then b activates again, with no
\* other event in between.
ScenStep(op, data, resp) ==
    IF scen.stage = "off" THEN scen
    ELSE IF op = "activate" /\ scen.stage = "released"
            /\ data.key = scen.key /\ data.hwid = scen.b
    THEN [scen EXCEPT !.stage = "retried"]
    ELSE IF op = "activate" /\ resp.detail = "Seats reached"
            /\ BagCardinality(SelectActivations(activations, data.key)) = resp.max_devices
    THEN [stage |-> "rejected", key |-> data.key, b |-> data.hwid, a |-> NoStr]
    ELSE IF op = "deactivate" /\ scen.stage = "rejected" /\ resp.status_code = 200
            /\ data.key = scen.key
    THEN [scen EXCEPT !.stage = "released", !.a = data.hwid]
    ELSE ScenIdle

Tick ==
    /\ now < MaxTime
    /\ now' = now + 1
    /\ last' = [op |-> "tick"]
    /\ pre' = Snapshot
    /\ scen' = ScenStep("tick", <<>>, <<>>)
    /\ UNCHANGED <<licenses, activations, devices, held, procs>>

\* keep: whether the client stores the token of the response.
Activate(data, keep) ==
    LET r == activate(data)
    IN  /\ activations' = r.activations
        /\ held' = IF r.resp.status_code = 200 /\ keep
                   THEN r.resp.body.token ELSE held
        /\ last' = [op |-> "activate", data |-> data, resp |-> r.resp]
        /\ pre' = Snapshot
        /\ scen' = ScenStep("activate", data, r.resp)
        /\ UNCHANGED <<licenses, devices, now, procs>>

Validate(data) ==
    LET r == validate_token(data)
    IN  /\ activations' = r.activations
        /\ last' = [op |-> "validate", data |-> data, resp |-> r.resp]
        /\ pre' = Snapshot
        /\ scen' = ScenStep("validate", data, r.resp)
        /\ UNCHANGED <<licenses, devices, now, held, procs>>

Deactivate(data) ==
    LET r == deactivate(data)
    IN  /\ activations' = r.activations
        /\ last' = [op |-> "deactivate", data |-> data, resp |-> r.resp]
        /\ pre' = Snapshot
        /\ scen' = ScenStep("deactivate", data, r.resp)
        /\ UNCHANGED <<licenses, devices, now, held, procs>>

RegisterDevice(data) ==
    LET r == register_device(data)
    IN  /\ devices' = r.devices
        /\ last' = [op |-> "register_device", data |-> data, resp |-> r.resp]
        /\ pre' = Snapshot
        /\ scen' = ScenStep("register_device", data, r.resp)
        /\ UNCHANGED <<licenses, activations, now, held, procs>>

\* An admin request: the 401 of admin_auth, or the handler's result r.
Admin(op, auth, data, r) ==
    /\ licenses' = IF admin_auth(auth) THEN r.licenses ELSE licenses
    /\ last' = [op |-> op, auth |-> auth, data |-> data,
                resp |-> IF admin_auth(auth) THEN r.resp ELSE Unauthorized]
    /\ pre' = Snapshot
    /\ scen' = ScenStep(op, data, r.resp)
    /\ UNCHANGED <<activations, devices, now, held, procs>>

\* The request is recorded with the keys generate_short_key had in store.
CreateLicense(auth, data, draws) ==
    Admin("create_license", auth, [draws |-> draws] @@ data,
          create_license(data, draws))

UpdateLicense(auth, key, data) ==
    Admin("update_license", auth, [key |-> key, patch |-> data],
          update_license(key, data))

DeleteLicense(auth, key) ==
    Admin("delete_license", auth, [key |-> key], delete_license(key))

Revoke(auth, key) ==
    Admin("revoke", auth, [key |-> key], revoke(key))

\* A read request of the public API: nothing changes.
Read(op, data, resp) ==
    /\ last' = [op |-> op, data |-> data, resp |-> resp]
    /\ pre' = Snapshot
    /\ scen' = ScenStep(op, data, resp)
    /\ UNCHANGED <<licenses, activations, devices, now, held, procs>>

LicenseLookup(data) == Read("license_lookup", data, license_lookup(data))

GetLicensePublic(key, app_ver) ==
    Read("get_license_public", [key |-> key, app_ver |-> app_ver],
         get_license_public(key, app_ver))

ListLicenses(auth) == Admin("list_licenses", auth, << >>, list_licenses)

GetLicenseDetail(auth, key) ==
    Admin("get_license_detail", auth, [key |-> key], get_license_detail(key))

ListActivations(auth, key) ==
    Admin("list_activations", auth, [key |-> key], list_activations(key))

SearchLicenses(auth, q) ==
    Admin("list_licenses", auth, [q |-> q], list_licenses_where(q))

-----------------------------------------------------------------------------
(* The requests the specifications send *)

LookupInputs(K) == [key : K, app_ver : {NoStr}]

AuthOk == [creds |-> ADMIN_TOKEN, x_admin_token |-> NoStr]

ActivateInputs(K, H) == [key : K, hwid : H, app_ver : {NoStr}]
\* The held token re-signed by somebody who does not own the private key.
Forged(token) ==
    [token EXCEPT !.sig = b64u(Ed25519Sign("attacker", b64u_d(token.body).bytes))]

ValidateInputs(H) ==
    [token : {t \in {held, Forged(held)} : held # NoToken}, hwid : H]
DeactivateInputs(K, H) == [key : K, hwid : H]
RegisterInputs(K, H) ==
    [key : K, hwid : H, hostname : {NoStr}, platform : {NoStr}, app_ver : {NoStr}]
CreateInputs(K, caps, days) ==
    [key : K, license : {NoStr}, plan : {NoStr}, max_devices : caps,
     max_version : {NoStr}, expires_days : days, notes : {NoStr}]
\* The body {} of a PATCH.
EmptyPatch ==
    [status |-> UnsetStr, plan |-> UnsetStr, max_devices |-> Unset,
     expires_days |-> Unset, notes |-> UnsetStr]
ExpiryPatches ==
    [status : {UnsetStr}, plan : {UnsetStr}, max_devices : {Unset},
     expires_days : {1}, notes : {UnsetStr}]
StatusPatches ==
    [status : {"active", "revoked", "deleted"}, plan : {UnsetStr},
     max_devices : {Unset}, expires_days : {Unset}, notes : {UnsetStr}]
CapPatches ==
    [status : {UnsetStr}, plan : {UnsetStr}, max_devices : 1..MaxCap,
     expires_days : {Unset}, notes : {UnsetStr}]
\* create_license bodies that name a plan.
CreatePlanInputs(K, plans) ==
    [key : K, license : {NoStr}, plan : plans, max_devices : {DefaultMaxDevices},
     max_version : {NoStr}, expires_days : {None}, notes : {NoStr}]
PlanPatches(plans) ==
    [status : {UnsetStr}, plan : plans, max_devices : {Unset},
     expires_days : {Unset}, notes : {UnsetStr}]
\* What a place can hold: nothing, the private key alone, an Ed25519
\* pair, a pair of another algorithm, or an Ed25519 private key with a
\* public key of another algorithm.
Pem(kind, place) ==
    IF place = "PRIVATE_KEY_PEM_B64" THEN [b64 |-> [kind |-> kind, at |-> place]]
    ELSE [kind |-> kind, at |-> place]
PlaceContents(place) ==
    <<[priv |-> NoPem, pub |-> NoPem],
      [priv |-> Pem("Ed25519", place), pub |-> NoPem],
      [priv |-> Pem("Ed25519", place), pub |-> Pem("Ed25519", place)],
      [priv |-> Pem("RSA", place), pub |-> Pem("RSA", place)],
      [priv |-> Pem("Ed25519", place), pub |-> Pem("RSA", place)]>>
PlaceNames == {Places[i] : i \in 1..Len(Places)}
Environments ==
    {[p \in PlaceNames |-> PlaceContents(p)[c[p]]] : c \in [PlaceNames -> 1..5]}
\* The credentials a request may carry: a bearer token, an X-Admin-Token
\* header, both or neither; right, wrong, empty, or right between blanks.
AuthInputs ==
    [creds : {NoStr, "", ADMIN_TOKEN, "wrong"},
     x_admin_token : {NoStr, "", ADMIN_TOKEN, " change-me ", "wrong"}]
\* Search terms of list_licenses, and create_license bodies with a plan and
\* notes to find.
Queries == {NoStr, "", "K", "k1", "ro", "act", "mem", "e", "_"}
CreateSearchInputs(K) ==
    [key : K, license : {NoStr}, plan : {NoStr, "Pro"},
     max_devices : {DefaultMaxDevices}, max_version : {NoStr},
     expires_days : {None}, notes : {NoStr, "memo"}]
\* Requests that carry the client's version, and create_license bodies
\* with and without a max_version.
AppVers == {NoStr, "1.0.0"}
ActivateVerInputs(K, H) == [key : K, hwid : H, app_ver : AppVers]
RegisterVerInputs(K, H) ==
    [key : K, hwid : H, hostname : {NoStr}, platform : {NoStr}, app_ver : AppVers]
CreateVersionInputs(K) ==
    [key : K, license : {NoStr}, plan : {NoStr}, max_devices : {DefaultMaxDevices},
     max_version : {NoStr, "2.0.0"}, expires_days : {None}, notes : {NoStr}]
\* PATCH bodies that name no field, one field (with a value, or null where
\* the field accepts it) or all of them.
MergePatches ==
    {EmptyPatch,
     [EmptyPatch EXCEPT !.status = "revoked"],
     [EmptyPatch EXCEPT !.plan = "Pro"],
     [EmptyPatch EXCEPT !.plan = NoStr],
     [EmptyPatch EXCEPT !.max_devices = MaxCap],
     [EmptyPatch EXCEPT !.expires_days = 1],
     [EmptyPatch EXCEPT !.expires_days = None],
     [EmptyPatch EXCEPT !.notes = "memo"],
     [status |-> "active", plan |-> "Plus", max_devices |-> MaxCap,
      expires_days |-> 1, notes |-> "all"]}
\* create_license bodies that fill the license blob and max_version.
CreateFullInputs(K) ==
    [key : K, license : {"blob"}, plan : {"Free"}, max_devices : {DefaultMaxDevices},
     max_version : {"2.0.0"}, expires_days : {None}, notes : {"first"}]
Draws(K) == [1..(MaxKeyTries + 1) -> K]
\* The runs of generate_short_key that return one key again and again.
SameDraws(K) == {[i \in 1..(MaxKeyTries + 1) |-> k] : k \in K}

\* The database as create_all leaves it, and no request served yet.
Init ==
    /\ now = 0
    /\ licenses = EmptyBag
    /\ activations = EmptyBag
    /\ devices = EmptyBag
    /\ held = NoToken
    /\ last = [op |-> "start"]
    /\ pre = Snapshot
    /\ scen = ScenOff
    /\ procs = [w \in Workers |-> Idle]

-----------------------------------------------------------------------------
(* Spec: seat allocation.  One license key, three hardware ids, the cap   *)
(* drawn from 1..MaxCap and changed by update_license; the clock stands.  *)

KeysS == {"K1"}
HwidsS == {"A", "B", "C"}

Next ==
    \/ \E data \in CreateInputs(KeysS, 1..MaxCap, {None}), draws \in Draws(KeysS) :
          CreateLicense(AuthOk, data, draws)
    \/ \E key \in KeysS, data \in CapPatches \cup StatusPatches :
          UpdateLicense(AuthOk, key, data)
    \/ \E key \in KeysS : DeleteLicense(AuthOk, key)
    \/ \E key \in KeysS : Revoke(AuthOk, key)
    \/ \E data \in ActivateInputs(KeysS, HwidsS) : Activate(data, FALSE)
    \/ \E data \in DeactivateInputs(KeysS, HwidsS) : Deactivate(data)
    \/ \E data \in RegisterInputs(KeysS, HwidsS) : RegisterDevice(data)

Spec == Init /\ [][Next]_vars

-----------------------------------------------------------------------------
(* SpecTimed: licenses that expire.  The clock runs over 0..MaxTime, a    *)
(* license is created with or without an expiry one day ahead, and two    *)
(* hardware ids activate and register.                                    *)

HwidsT == {"A", "B"}

NextTimed ==
    \/ Tick
    \/ \E data \in CreateInputs(KeysS, {DefaultMaxDevices}, {None, 1}),
          draws \in Draws(KeysS) :
          CreateLicense(AuthOk, data, draws)
    \/ \E key \in KeysS, data \in ExpiryPatches : UpdateLicense(AuthOk, key, data)
    \/ \E data \in ActivateInputs(KeysS, HwidsT) : Activate(data, FALSE)
    \/ \E data \in RegisterInputs(KeysS, HwidsT) : RegisterDevice(data)
    \/ \E data \in DeactivateInputs(KeysS, HwidsT) : Deactivate(data)

SpecTimed == Init /\ [][NextTimed]_vars

-----------------------------------------------------------------------------
(* SpecRelease: Spec without register_device, with the seat-release       *)
(* scenario followed.                                                      *)

InitRelease ==
    /\ now = 0
    /\ licenses = EmptyBag
    /\ activations = EmptyBag
    /\ devices = EmptyBag
    /\ held = NoToken
    /\ last = [op |-> "start"]
    /\ pre = Snapshot
    /\ scen = ScenIdle
    /\ procs = [w \in Workers |-> Idle]

NextRelease ==
    \/ \E data \in CreateInputs(KeysS, 1..MaxCap, {None}), draws \in Draws(KeysS) :
          CreateLicense(AuthOk, data, draws)
    \/ \E key \in KeysS, data \in CapPatches : UpdateLicense(AuthOk, key, data)
    \/ \E key \in KeysS : Revoke(AuthOk, key)
    \/ \E data \in ActivateInputs(KeysS, HwidsS) : Activate(data, FALSE)
    \/ \E data \in DeactivateInputs(KeysS, HwidsS) : Deactivate(data)

SpecRelease == InitRelease /\ [][NextRelease]_vars

-----------------------------------------------------------------------------
(* SpecLife: the life of a license and of the tokens issued for it.  The  *)
(* clock runs, the license is created, revoked, deleted and patched, and  *)
(* a client that kept a token validates with it.                          *)

NextLife ==
    \/ Tick
    \/ \E data \in CreateInputs(KeysS, {DefaultMaxDevices}, {None}),
          draws \in Draws(KeysS) :
          CreateLicense(AuthOk, data, draws)
    \/ \E key \in KeysS, data \in StatusPatches : UpdateLicense(AuthOk, key, data)
    \/ \E key \in KeysS : DeleteLicense(AuthOk, key)
    \/ \E key \in KeysS : Revoke(AuthOk, key)
    \/ \E data \in ActivateInputs(KeysS, HwidsT), keep \in BOOLEAN :
          Activate(data, keep)
    \/ \E data \in ValidateInputs(HwidsT) : Validate(data)
    \/ \E data \in DeactivateInputs(KeysS, HwidsT) : Deactivate(data)

SpecLife == Init /\ [][NextLife]_vars

-----------------------------------------------------------------------------
(* SpecPair: two licenses, each with the max_devices it was created       *)
(* with; seats are taken through activate and released through           *)
(* deactivate.  Requests are served one after another.                    *)

NextPair ==
    \/ \E data \in CreateInputs(Keys, {DefaultMaxDevices, MaxCap}, {None}),
          draws \in SameDraws(Keys) :
          CreateLicense(AuthOk, data, draws)
    \/ \E data \in ActivateInputs(Keys, HwidsT) : Activate(data, FALSE)
    \/ \E data \in DeactivateInputs(Keys, HwidsT) : Deactivate(data)

SpecPair == Init /\ [][NextPair]_vars

-----------------------------------------------------------------------------
(* SpecSeats: one license with the max_devices it was created with; seats *)
(* are taken through both activate and register_device, released through *)
(* deactivate, and the status of the license is read.  Requests are       *)
(* served one after another.                                               *)

NextSeats ==
    \/ \E data \in CreateInputs(KeysS, {DefaultMaxDevices, MaxCap}, {None}),
          draws \in SameDraws(KeysS) :
          CreateLicense(AuthOk, data, draws)
    \/ \E data \in ActivateInputs(KeysS, HwidsT) : Activate(data, FALSE)
    \/ \E data \in RegisterInputs(KeysS, HwidsT) : RegisterDevice(data)
    \/ \E data \in DeactivateInputs(KeysS, HwidsT) : Deactivate(data)
    \/ \E data \in LookupInputs(KeysS) : LicenseLookup(data)
    \/ \E key \in KeysS : GetLicensePublic(key, NoStr)
    \/ ListLicenses(AuthOk)

SpecSeats == Init /\ [][NextSeats]_vars

-----------------------------------------------------------------------------
(* SpecAdmin: the admin operations on one license while the clock runs:   *)
(* it is created with or without a plan, patched (plan, status, nothing), *)
(* revoked and deleted.                                                    *)

PlansA == {NoStr, "Pro", "Gold"}

NextAdmin ==
    \/ Tick
    \/ \E data \in CreatePlanInputs(KeysS, PlansA), draws \in SameDraws(KeysS) :
          CreateLicense(AuthOk, data, draws)
    \/ \E key \in KeysS,
          data \in PlanPatches(PlansA) \cup StatusPatches \cup {EmptyPatch} :
          UpdateLicense(AuthOk, key, data)
    \/ \E key \in KeysS : DeleteLicense(AuthOk, key)
    \/ \E key \in KeysS : Revoke(AuthOk, key)

SpecAdmin == Init /\ [][NextAdmin]_vars

-----------------------------------------------------------------------------
(* SpecPatch: update_license with every combination of patched fields on  *)
(* the license K1, next to a license K2 that is only created, while the   *)
(* clock runs.                                                             *)

NextPatch ==
    \/ Tick
    \/ \E data \in CreateFullInputs(Keys), draws \in SameDraws(Keys) :
          CreateLicense(AuthOk, data, draws)
    \/ \E key \in KeysS, data \in MergePatches : UpdateLicense(AuthOk, key, data)

SpecPatch == Init /\ [][NextPatch]_vars

-----------------------------------------------------------------------------
(* SpecVersion: _version_lte on its own, applied to every pair of version *)
(* strings of up to MaxVerLen characters, to None and to the versions the  *)
(* documentation names.                                                    *)

VerChars == {"1", "2", ".", "x"}

Versions ==
    UNION {[1..n -> VerChars] : n \in 0..MaxVerLen}
    \cup {NoneVer,
          <<"1", ".", "2", ".", "3">>, <<"1", ".", "2", ".", "1", "0">>,
          <<"2", ".", "0", ".", "0">>, <<"1", ".", "9", ".", "9">>,
          <<"1", ".", "0", ".", "0">>, <<" ", "1", ".", "2", " ">>,
          <<"0">>, <<"0", "1">>, <<"0", ".", "0", ".", "1">>,
          <<"1", ".", "2", ".", "3", ".", "4">>, <<"1", ".", "2", "b", ".", "3">>}

VersionLte(a, b) ==
    /\ last' = [op |-> "_version_lte", data |-> [a |-> a, b |-> b],
                resp |-> version_lte(a, b)]
    /\ UNCHANGED <<licenses, activations, devices, now, held, pre, scen, procs>>

\* One call in a run.
NextVersion ==
    /\ last.op = "start"
    /\ \E a \in Versions, b \in Versions : VersionLte(a, b)

SpecVersion == Init /\ [][NextVersion]_vars

-----------------------------------------------------------------------------
(* SpecGate: two licenses, K1 created with the default max_version 0.0.1 *)
(* and K2 with 2.0.0, and clients that send no app_ver or 1.0.0, which is *)
(* newer than the one and older than the other.                           *)

\* The License table after create_license for K1 and then for K2.
GateLicenses ==
    LET d1 == First({d \in CreateVersionInputs({"K1"}) : d.max_version = NoStr})
        d2 == First({d \in CreateVersionInputs({"K2"}) : d.max_version = "2.0.0"})
        t1 == InsertRow(EmptyBag, NewLicense(EmptyBag, d1.key, d1))
    IN  InsertRow(t1, NewLicense(t1, d2.key, d2))

InitGate ==
    /\ now = 0
    /\ licenses = GateLicenses
    /\ activations = EmptyBag
    /\ devices = EmptyBag
    /\ held = NoToken
    /\ last = [op |-> "start"]
    /\ pre = Snapshot
    /\ scen = ScenOff
    /\ procs = [w \in Workers |-> Idle]

NextGate ==
    \/ \E data \in ActivateVerInputs(Keys, HwidsT) : Activate(data, FALSE)
    \/ \E data \in RegisterVerInputs(Keys, HwidsT) : RegisterDevice(data)
    \/ \E data \in DeactivateInputs(Keys, HwidsT) : Deactivate(data)

SpecGate == InitGate /\ [][NextGate]_vars

-----------------------------------------------------------------------------
(* SpecSearch: list_licenses with a search term over up to two licenses   *)
(* with or without a plan and notes, active or revoked.                   *)

NextSearch ==
    \/ \E data \in CreateSearchInputs(Keys), draws \in SameDraws(Keys) :
          CreateLicense(AuthOk, data, draws)
    \/ \E key \in Keys : Revoke(AuthOk, key)
    \/ \E q \in Queries : SearchLicenses(AuthOk, q)

SpecSearch == Init /\ [][NextSearch]_vars

-----------------------------------------------------------------------------
(* SpecKeyLoad: the startup of the process in every environment.          *)

\* startup(): PRIV, PUB_PEM = load_keys_from_env()
Startup(env) ==
    /\ last' = [op |-> "startup", data |-> env, resp |-> load_keys_from_env(env)]
    /\ UNCHANGED <<licenses, activations, devices, now, held, pre, scen, procs>>

\* The process starts once.
NextKeyLoad ==
    /\ last.op = "start"
    /\ \E env \in Environments : Startup(env)

SpecKeyLoad == Init /\ [][NextKeyLoad]_vars

-----------------------------------------------------------------------------
(* SpecAuth: the seven admin operations with every kind of credential, on *)
(* one license and its seats.                                             *)

NextAuth ==
    \/ \E auth \in AuthInputs,
          data \in CreateInputs(KeysS, {DefaultMaxDevices}, {None}),
          draws \in SameDraws(KeysS) : CreateLicense(auth, data, draws)
    \/ \E auth \in AuthInputs : ListLicenses(auth)
    \/ \E auth \in AuthInputs, key \in KeysS : GetLicenseDetail(auth, key)
    \/ \E auth \in AuthInputs, key \in KeysS, data \in StatusPatches :
          UpdateLicense(auth, key, data)
    \/ \E auth \in AuthInputs, key \in KeysS : DeleteLicense(auth, key)
    \/ \E auth \in AuthInputs, key \in KeysS : Revoke(auth, key)
    \/ \E auth \in AuthInputs, key \in KeysS \cup {NoStr} : ListActivations(auth, key)
    \/ \E data \in ActivateInputs(KeysS, HwidsT) : Activate(data, FALSE)

SpecAuth == Init /\ [][NextAuth]_vars

-----------------------------------------------------------------------------
(* SpecKeyGen: create_license with and without a key of the caller, when  *)
(* generate_short_key returns taken and free keys in every order.         *)

GenKeys == {"K1", "K3"}

NextKeyGen ==
    \E data \in CreateInputs({NoStr, "K1"}, {DefaultMaxDevices}, {None}),
       draws \in Draws(GenKeys) :
       CreateLicense(AuthOk, data, draws)

SpecKeyGen == Init /\ [][NextKeyGen]_vars

-----------------------------------------------------------------------------
(* SpecLookup: the two public reads.  A license is created with or        *)
(* without an expiry and with a max_version that is the default, empty or *)
(* 2.0.0; the clock runs, the license is revoked, deleted and restored, a *)
(* device registers, and clients look the license and an unknown key up   *)
(* with and without an app_ver.                                           *)

LookupVers == {NoStr, "", "1.0.0", "2.0.0"}

CreateLookupInputs(K) ==
    [key : K, license : {NoStr}, plan : {NoStr}, max_devices : {DefaultMaxDevices},
     max_version : {NoStr, "", "1.0.0"}, expires_days : {None, 1}, notes : {NoStr}]

NextLookup ==
    \/ Tick
    \/ \E data \in CreateLookupInputs(KeysS), draws \in SameDraws(KeysS) :
          CreateLicense(AuthOk, data, draws)
    \/ \E key \in KeysS, data \in StatusPatches : UpdateLicense(AuthOk, key, data)
    \/ \E data \in RegisterInputs(KeysS, {"A"}) : RegisterDevice(data)
    \/ \E data \in [key : Keys, app_ver : LookupVers] : LicenseLookup(data)
    \/ \E key \in Keys, app_ver \in LookupVers : GetLicensePublic(key, app_ver)

SpecLookup == Init /\ [][NextLookup]_vars

-----------------------------------------------------------------------------
(* SpecBind: what a token is bound to.  A license of MaxCap seats is      *)
(* created with or without an expiry; two hardware ids activate, and the  *)
(* client keeps the token of hwid A's activations only; the clock runs,   *)
(* the license is revoked, seats are released, and either hwid validates  *)
(* with the kept token or with one signed by somebody else.               *)

NextBind ==
    \/ Tick
    \/ \E data \in CreateInputs(KeysS, {MaxCap}, {None, 1}),
          draws \in SameDraws(KeysS) :
          CreateLicense(AuthOk, data, draws)
    \/ \E key \in KeysS : Revoke(AuthOk, key)
    \/ \E data \in ActivateInputs(KeysS, HwidsT) : Activate(data, data.hwid = "A")
    \/ \E data \in DeactivateInputs(KeysS, HwidsT) : Deactivate(data)
    \/ \E data \in ValidateInputs(HwidsT) : Validate(data)

SpecBind == Init /\ [][NextBind]_vars

-----------------------------------------------------------------------------
(* SpecFrame: the admin writes next to the seat records.  A license with  *)
(* seats of both kinds is revoked, deleted and patched in status and cap  *)
(* while the clock runs, and seats are released afterwards.               *)

NextFrame ==
    \/ Tick
    \/ \E data \in CreateInputs(KeysS, {MaxCap}, {None, 1}),
          draws \in SameDraws(KeysS) :
          CreateLicense(AuthOk, data, draws)
    \/ \E key \in KeysS,
          data \in {[EmptyPatch EXCEPT !.status = "active"],
                    [EmptyPatch EXCEPT !.max_devices = DefaultMaxDevices]} :
          UpdateLicense(AuthOk, key, data)
    \/ \E key \in KeysS : DeleteLicense(AuthOk, key)
    \/ \E key \in KeysS : Revoke(AuthOk, key)
    \/ \E data \in ActivateInputs(KeysS, HwidsT) : Activate(data, FALSE)
    \/ \E data \in RegisterInputs(KeysS, HwidsT) : RegisterDevice(data)
    \/ \E data \in DeactivateInputs(KeysS, HwidsT) : Deactivate(data)

SpecFrame == Init /\ [][NextFrame]_vars

-----------------------------------------------------------------------------
(* SpecDevices: the life of Device rows: seats are registered on one      *)
(* license, activated and deactivated, and the license is revoked and     *)
(* deleted, while list_licenses reports used_devices.                     *)

NextDevices ==
    \/ \E data \in CreateInputs(KeysS, {DefaultMaxDevices, MaxCap}, {None}),
          draws \in SameDraws(KeysS) :
          CreateLicense(AuthOk, data, draws)
    \/ \E data \in RegisterInputs(KeysS, HwidsT) : RegisterDevice(data)
    \/ \E data \in ActivateInputs(KeysS, HwidsT) : Activate(data, FALSE)
    \/ \E data \in DeactivateInputs(KeysS, HwidsT) : Deactivate(data)
    \/ \E key \in KeysS : Revoke(AuthOk, key)
    \/ \E key \in KeysS : DeleteLicense(AuthOk, key)
    \/ ListLicenses(AuthOk)

SpecDevices == Init /\ [][NextDevices]_vars

-----------------------------------------------------------------------------
(* SpecCap: seats under a cap that stays.  A license is created with a    *)
(* cap in 1..MaxCap and never patched; three hardware ids activate,       *)
(* validate and deactivate, one request after another.                    *)

NextCap ==
    \/ \E data \in CreateInputs(KeysS, 1..MaxCap, {None}), draws \in SameDraws(KeysS) :
          CreateLicense(AuthOk, data, draws)
    \/ \E data \in ActivateInputs(KeysS, HwidsS) : Activate(data, TRUE)
    \/ \E data \in ValidateInputs(HwidsS) : Validate(data)
    \/ \E data \in DeactivateInputs(KeysS, HwidsS) : Deactivate(data)

SpecCap == Init /\ [][NextCap]_vars

-----------------------------------------------------------------------------
(* SpecOrder: the order of the checks of activate.  A license of one seat *)
(* is created with or without an expiry, the clock runs, the license is   *)
(* revoked, deleted and restored, and two hardware ids activate on it and *)
(* on a key that has no license.                                          *)

NextOrder ==
    \/ Tick
    \/ \E data \in CreateInputs(KeysS, {DefaultMaxDevices}, {None, 1}),
          draws \in SameDraws(KeysS) :
          CreateLicense(AuthOk, data, draws)
    \/ \E key \in KeysS, data \in StatusPatches : UpdateLicense(AuthOk, key, data)
    \/ \E key \in KeysS : Revoke(AuthOk, key)
    \/ \E data \in ActivateInputs(Keys, HwidsT), keep \in BOOLEAN :
          Activate(data, keep)

SpecOrder == Init /\ [][NextOrder]_vars

-----------------------------------------------------------------------------
(* SpecToken: sign_token and verify_token on their own.  A token is       *)
(* signed for a payload of the shape activate builds, the clock runs, and *)
(* verify_token is given the token as issued or with one bit of one       *)
(* digit of one segment flipped.                                           *)

Payloads ==
    [k : KeysS, e : 0..(MaxTime + 1), m : 1..MaxCap, p : {"", "Free", "Pro"},
     kid : {KID}]

\* The base64 digit d with bit j flipped.
FlipBit(d, j) == IF (d \div (2 ^ j)) % 2 = 0 THEN d + 2 ^ j ELSE d - 2 ^ j

\* The digits of a segment that are changed: the first, whose bits all
\* belong to the first byte, one in the middle and the last.
MutPositions(seg) ==
    IF Len(seg) = 0 THEN {} ELSE {1, (Len(seg) + 1) \div 2, Len(seg)}

\* The tokens that differ from token in one bit of one such digit.
Mutations(token) ==
    {[token EXCEPT !.body[i] = FlipBit(@, j)] :
        i \in MutPositions(token.body), j \in 0..5}
    \cup {[token EXCEPT !.sig[i] = FlipBit(@, j)] :
        i \in MutPositions(token.sig), j \in 0..5}

SignToken(payload) ==
    /\ held' = sign_token(PRIV, payload)
    /\ last' = [op |-> "sign_token", data |-> payload, resp |-> held']
    /\ pre' = Snapshot
    /\ UNCHANGED <<licenses, activations, devices, now, scen, procs>>

\* verify_token on a token made from the issued one; payload is the
\* payload the issued token was signed for.
VerifyToken(payload, token) ==
    /\ last' = [op |-> "verify_token",
                data |-> [token |-> token, issued |-> held, payload |-> payload],
                resp |-> verify_token(PUB_PEM, token)]
    /\ pre' = Snapshot
    /\ UNCHANGED <<licenses, activations, devices, now, held, scen, procs>>

NextToken ==
    \/ Tick
    \/ \E payload \in Payloads : SignToken(payload)
    \/ \E payload \in {q \in Payloads : held = sign_token(PRIV, q)} :
          \E token \in {held} \cup Mutations(held) : VerifyToken(payload, token)

SpecToken == Init /\ [][NextToken]_vars

-----------------------------------------------------------------------------
(* SpecValidate: validate with the token a client kept and with tokens    *)
(* made from it: re-signed by somebody else, cut short, or changed in one *)
(* bit of one base64 digit.  The clock runs, so kept tokens expire; the   *)
(* license is revoked and seats are taken and released.                   *)

\* The token with its payload segment cut to one digit.
Truncated(token) ==
    [token EXCEPT !.body = IF Len(@) = 0 THEN @ ELSE SubSeq(@, 1, 1)]

\* The token with the lowest bit flipped in the first or in the last digit
\* of a segment.
EndFlips(token) ==
    {[token EXCEPT !.body[i] = FlipBit(@, 0)] : i \in {1, Len(token.body)}}
    \cup {[token EXCEPT !.sig[i] = FlipBit(@, 0)] : i \in {1, Len(token.sig)}}

\* issued: the token the client was given, which the request's token was
\* made from.
ValidateTamperInputs(H) ==
    [token : IF held = NoToken THEN {}
             ELSE {held, Forged(held), Truncated(held)} \cup EndFlips(held),
     hwid : H, issued : {held}]

NextValidate ==
    \/ Tick
    \/ \E data \in CreateInputs(KeysS, {DefaultMaxDevices}, {None}),
          draws \in SameDraws(KeysS) :
          CreateLicense(AuthOk, data, draws)
    \/ \E key \in KeysS : Revoke(AuthOk, key)
    \/ \E data \in ActivateInputs(KeysS, HwidsT) : Activate(data, TRUE)
    \/ \E data \in DeactivateInputs(KeysS, HwidsT) : Deactivate(data)
    \/ \E data \in ValidateTamperInputs(HwidsT) : Validate(data)

SpecValidate == Init /\ [][NextValidate]_vars

-----------------------------------------------------------------------------
(* Requests served concurrently: every worker runs one handler at a time, *)
(* and each query and each commit of a handler is a step of its own,      *)
(* which sees the rows committed so far.                                  *)

\* The worker w answers resp and is free again.
Respond(w, op, resp) ==
    /\ last' = [op |-> op, data |-> procs[w].data, resp |-> resp, worker |-> w]
    /\ procs' = [procs EXCEPT ![w] = Idle]

\* The worker w goes on at pc with the locals changed to loc.
Goto(w, pc, loc) ==
    /\ procs' = [procs EXCEPT ![w] = [loc EXCEPT !.pc = pc]]
    /\ last' = last

\* activate: the license query and the two checks on its result.
ActBegin(w, data) ==
    /\ procs[w].pc = "idle"
    /\ LET rows == SelectLicense(licenses, data.key)
           gate == LicenseGate(rows)
       IN  IF gate # Pass
           THEN /\ last' = [op |-> "activate", data |-> data, resp |-> gate,
                            worker |-> w]
                /\ procs' = procs
           ELSE /\ procs' = [procs EXCEPT ![w] =
                                [pc |-> "act_select", data |-> data,
                                 lic |-> FirstRow(rows), committed |-> FALSE]]
                /\ last' = last
    /\ UNCHANGED <<licenses, activations, devices, now, held, pre, scen>>

\* activate: the query of the license's Activation rows and the seat check.
ActSelect(w) ==
    /\ procs[w].pc = "act_select"
    /\ LET p == procs[w]
           actives == SelectActivations(activations, p.lic.key)
           seat == ActivateSeat(actives, p.lic, p.data.hwid)
       IN  IF seat = "full"
           THEN Respond(w, "activate", SeatsReached(p.lic.max_devices))
           ELSE IF seat = "insert"
           THEN Goto(w, "act_commit", p)
           ELSE Goto(w, "act_token", p)
    /\ UNCHANGED <<licenses, activations, devices, now, held, pre, scen>>

\* activate: db.add(Activation(...)); db.commit().
ActCommit(w) ==
    /\ procs[w].pc = "act_commit"
    /\ LET p == procs[w]
           ins == InsertActivation(activations, Activation(p.lic.key, p.data.hwid))
       IN  IF ins.ok
           THEN /\ activations' = ins.tbl
                /\ Goto(w, "act_token", [p EXCEPT !.committed = TRUE])
           ELSE /\ activations' = activations
                /\ Respond(w, "activate", ServerError)
    /\ UNCHANGED <<licenses, devices, now, held, pre, scen>>

\* activate: the token and the response.  After a commit the session has
\* expired lic, and reading lic.key loads the row again.
ActToken(w) ==
    /\ procs[w].pc = "act_token"
    /\ LET p == procs[w]
           lic == IF p.committed
                  THEN FirstRow(Rows(licenses, {l \in BagToSet(licenses) :
                                                 l.id = p.lic.id}))
                  ELSE p.lic
       IN  Respond(w, "activate", Ok(ActivateBody(lic)))
    /\ UNCHANGED <<licenses, activations, devices, now, held, pre, scen>>

\* register_device: the license query and the two checks on its result.
RegBegin(w, data) ==
    /\ procs[w].pc = "idle"
    /\ LET rows == SelectLicense(licenses, data.key)
           gate == LicenseGate(rows)
       IN  IF gate # Pass
           THEN /\ last' = [op |-> "register_device", data |-> data, resp |-> gate,
                            worker |-> w]
                /\ procs' = procs
           ELSE /\ procs' = [procs EXCEPT ![w] =
                                [pc |-> "reg_find", data |-> data,
                                 lic |-> FirstRow(rows)]]
                /\ last' = last
    /\ UNCHANGED <<licenses, activations, devices, now, held, pre, scen>>

\* register_device: the query of the Device row of (license, hwid).
RegFind(w) ==
    /\ procs[w].pc = "reg_find"
    /\ LET p == procs[w]
           dev == SelectDevice(devices, p.lic.id, p.data.hwid)
       IN  IF IsEmpty(dev) THEN Goto(w, "reg_count", p)
           ELSE Goto(w, "reg_update", p)
    /\ UNCHANGED <<licenses, activations, devices, now, held, pre, scen>>

\* register_device: the count query and the seat check.
RegCount(w) ==
    /\ procs[w].pc = "reg_count"
    /\ LET p == procs[w]
       IN  IF SeatsFull(CountDevices(devices, p.lic.id), p.lic)
           THEN Respond(w, "register_device", SeatsReached(p.lic.max_devices))
           ELSE Goto(w, "reg_insert", p)
    /\ UNCHANGED <<licenses, activations, devices, now, held, pre, scen>>

\* register_device: db.add(dev); db.commit() of the new row.
RegInsert(w) ==
    /\ procs[w].pc = "reg_insert"
    /\ LET p == procs[w]
           ins == InsertDevice(devices,
                               Device(p.lic.id, p.data.hwid, p.data.hostname,
                                      p.data.platform, p.data.app_ver))
       IN  IF ins.ok
           THEN /\ devices' = ins.tbl
                /\ Goto(w, "reg_respond", p)
           ELSE /\ devices' = devices
                /\ Respond(w, "register_device", ServerError)
    /\ UNCHANGED <<licenses, activations, now, held, pre, scen>>

\* register_device: the UPDATE of the row found, by its primary key.
RegUpdate(w) ==
    /\ procs[w].pc = "reg_update"
    /\ LET p == procs[w]
           dev == FirstRow(SelectDevice(devices, p.lic.id, p.data.hwid))
       IN  /\ devices' = UpdateRow(devices, dev, RegisterTouch(dev, p.data))
           /\ Goto(w, "reg_respond", p)
    /\ UNCHANGED <<licenses, activations, now, held, pre, scen>>

\* register_device: the second count query and the response.
RegRespond(w) ==
    /\ procs[w].pc = "reg_respond"
    /\ LET p == procs[w]
       IN  Respond(w, "register_device",
                   Ok([ok |-> TRUE, license_key |-> p.lic.key,
                       used_devices |-> CountDevices(devices, p.lic.id),
                       max_devices |-> p.lic.max_devices]))
    /\ UNCHANGED <<licenses, activations, devices, now, held, pre, scen>>

-----------------------------------------------------------------------------
(* SpecConc: two workers serve activate and register_device requests for  *)
(* one license whose max_devices, drawn from 1..MaxCap when it was        *)
(* created, never changes.                                                 *)

InitConc ==
    /\ now = 0
    /\ \E data \in CreateInputs(KeysS, 1..MaxCap, {None}) :
          licenses = InsertRow(EmptyBag, NewLicense(EmptyBag, data.key, data))
    /\ activations = EmptyBag
    /\ devices = EmptyBag
    /\ held = NoToken
    /\ last = [op |-> "start"]
    /\ pre = Snapshot
    /\ scen = ScenOff
    /\ procs = [w \in Workers |-> Idle]

NextConc ==
    \/ \E w \in Workers, data \in ActivateInputs(KeysS, HwidsS) : ActBegin(w, data)
    \/ \E w \in Workers : ActSelect(w)
    \/ \E w \in Workers : ActCommit(w)
    \/ \E w \in Workers : ActToken(w)
    \/ \E w \in Workers, data \in RegisterInputs(KeysS, HwidsS) : RegBegin(w, data)
    \/ \E w \in Workers : RegFind(w)
    \/ \E w \in Workers : RegCount(w)
    \/ \E w \in Workers : RegInsert(w)
    \/ \E w \in Workers : RegUpdate(w)
    \/ \E w \in Workers : RegRespond(w)

SpecConc == InitConc /\ [][NextConc]_vars

-----------------------------------------------------------------------------
(* SpecRace: two workers serve activate and register_device requests for  *)
(* two hwids on one license, so that both may work on the same new hwid   *)
(* at once.                                                                *)

InitRace ==
    /\ now = 0
    /\ \E data \in CreateInputs(KeysS, {DefaultMaxDevices, MaxCap}, {None}) :
          licenses = InsertRow(EmptyBag, NewLicense(EmptyBag, data.key, data))
    /\ activations = EmptyBag
    /\ devices = EmptyBag
    /\ held = NoToken
    /\ last = [op |-> "start"]
    /\ pre = Snapshot
    /\ scen = ScenOff
    /\ procs = [w \in Workers |-> Idle]

NextRace ==
    \/ \E w \in Workers, data \in ActivateInputs(KeysS, HwidsT) : ActBegin(w, data)
    \/ \E w \in Workers : ActSelect(w)
    \/ \E w \in Workers : ActCommit(w)
    \/ \E w \in Workers : ActToken(w)
    \/ \E w \in Workers, data \in RegisterInputs(KeysS, HwidsT) : RegBegin(w, data)
    \/ \E w \in Workers : RegFind(w)
    \/ \E w \in Workers : RegCount(w)
    \/ \E w \in Workers : RegInsert(w)
    \/ \E w \in Workers : RegUpdate(w)
    \/ \E w \in Workers : RegRespond(w)

SpecRace == InitRace /\ [][NextRace]_vars

-----------------------------------------------------------------------------
(* SpecRevoke: two workers serve activate and register_device requests    *)
(* on one active license, query by query, while an administrator revokes  *)
(* or deletes it.  revoke and delete_license are one step each: nothing   *)
(* another request could see lies between their query and their commit.   *)

NextRevoke ==
    \/ \E w \in Workers, data \in ActivateInputs(KeysS, HwidsT) : ActBegin(w, data)
    \/ \E w \in Workers : ActSelect(w)
    \/ \E w \in Workers : ActCommit(w)
    \/ \E w \in Workers : ActToken(w)
    \/ \E w \in Workers, data \in RegisterInputs(KeysS, HwidsT) : RegBegin(w, data)
    \/ \E w \in Workers : RegFind(w)
    \/ \E w \in Workers : RegCount(w)
    \/ \E w \in Workers : RegInsert(w)
    \/ \E w \in Workers : RegUpdate(w)
    \/ \E w \in Workers : RegRespond(w)
    \/ \E key \in KeysS : Revoke(AuthOk, key)
    \/ \E key \in KeysS : DeleteLicense(AuthOk, key)

SpecRevoke == InitRace /\ [][NextRevoke]_vars

-----------------------------------------------------------------------------
(* SpecKeys: two workers create licenses while licenses are patched,      *)
(* revoked and deleted.  create_license is served in two steps, the       *)
(* checks with the key loop's queries and then the commit, so that two    *)
(* calls may both find the same key free.                                  *)

\* create_license: the checks and the loop that settles the key.
CrBegin(w, data, draws) ==
    /\ procs[w].pc = "idle"
    /\ LET first == FirstKey(data, draws)
           key == KeyLoop(licenses, first.key, 0, first.rest)
           early == IF ~(ge1(data.max_devices) /\ ge1(data.expires_days)
                         /\ data.max_devices # None)
                    THEN HTTPException(422, "validation")
                    ELSE IF Truthy(data.plan) /\ data.plan \notin ALLOWED_PLANS
                    THEN HTTPException(422, "plan")
                    ELSE IF key = ""
                    THEN HTTPException(500, "Cannot generate unique key")
                    ELSE Pass
       IN  IF early # Pass
           THEN /\ last' = [op |-> "create_license", data |-> data,
                            resp |-> early, worker |-> w]
                /\ procs' = procs
           ELSE /\ procs' = [procs EXCEPT ![w] =
                                [pc |-> "cr_commit", data |-> data, key |-> key]]
                /\ last' = last
    /\ UNCHANGED <<licenses, activations, devices, now, held, pre, scen>>

\* create_license: db.add(lic); db.commit() and the response.
CrCommit(w) ==
    /\ procs[w].pc = "cr_commit"
    /\ LET p == procs[w]
           lic == NewLicense(licenses, p.key, p.data)
       IN  IF uq_license_key(licenses, lic) /\ ck_license_status(lic)
           THEN /\ licenses' = InsertRow(licenses, lic)
                /\ Respond(w, "create_license", Ok([id |-> lic.id, key |-> lic.key]))
           ELSE /\ licenses' = licenses
                /\ Respond(w, "create_license", HTTPException(409, "Key exists"))
    /\ UNCHANGED <<activations, devices, now, held, pre, scen>>

NextKeys ==
    \/ \E w \in Workers,
          data \in CreateInputs(Keys \cup {NoStr}, {DefaultMaxDevices}, {None}),
          draws \in SameDraws(Keys) : CrBegin(w, data, draws)
    \/ \E w \in Workers : CrCommit(w)
    \/ \E key \in Keys, data \in StatusPatches : UpdateLicense(AuthOk, key, data)
    \/ \E key \in Keys : DeleteLicense(AuthOk, key)
    \/ \E key \in Keys : Revoke(AuthOk, key)

SpecKeys == Init /\ [][NextKeys]_vars

-----------------------------------------------------------------------------
(* Notation for the properties: the request last served and the rows it   *)
(* found.                                                                  *)

\* The license row the last request's key named when the request arrived.
PreLicense == SelectLicense(pre.licenses, last.data.key)

\* The Activation rows of that key before and after the request.
PreActs == SelectActivations(pre.activations, last.data.key)
PostActs == SelectActivations(activations, last.data.key)

\* The Activation rows of (key, hwid) before and after the request.
PreAct == SelectActivation(pre.activations, last.data.key, last.data.hwid)
PostAct == SelectActivation(activations, last.data.key, last.data.hwid)

\* The license was active and not expired when the request arrived.
PreLicenseGood ==
    /\ ~IsEmpty(PreLicense)
    /\ FirstRow(PreLicense).status = "active"
    /\ ~(FirstRow(PreLicense).expires_at # None
         /\ FirstRow(PreLicense).expires_at < pre.now)

\* The Device rows of the license, and of (license, hwid), before and after.
PreDevs == Rows(pre.devices, {d \in BagToSet(pre.devices) :
                                d.license_id = FirstRow(PreLicense).id})
PostDevs == Rows(devices, {d \in BagToSet(devices) :
                             d.license_id = FirstRow(PreLicense).id})
PreDev == SelectDevice(pre.devices, FirstRow(PreLicense).id, last.data.hwid)
PostDev == SelectDevice(devices, FirstRow(PreLicense).id, last.data.hwid)

-----------------------------------------------------------------------------
\* C4: when an active, unexpired license already has at least max_devices
\* Activation rows and none of them is for hwid h, activate(key, h) answers
\* 403 "Seats reached (max_devices)", returns no token, inserts no seat
\* record and leaves every seat record as it was.
C4_SeatsExhausted ==
    (/\ last.op = "activate"
     /\ PreLicenseGood
     /\ BagCardinality(PreActs) >= FirstRow(PreLicense).max_devices
     /\ IsEmpty(PreAct))
    => /\ last.resp = SeatsReached(FirstRow(PreLicense).max_devices)
       /\ activations = pre.activations
       /\ devices = pre.devices

\* A full license (here: over-full after its cap was lowered) has refused
\* a new hwid.
C4_Witness ==
    /\ last.op = "activate"
    /\ PreLicenseGood
    /\ IsEmpty(PreAct)
    /\ BagCardinality(PreActs) > FirstRow(PreLicense).max_devices
    /\ last.resp.detail = "Seats reached"

\* C6: a successful activate (register_device) for an hwid that already
\* holds an Activation (Device) row of the license leaves the number of the
\* license's rows unchanged and exactly one row for that (license, hwid).
C6_Idempotent ==
    /\ (/\ last.op = "activate"
        /\ last.resp.status_code = 200
        /\ ~IsEmpty(PreAct))
       => /\ BagCardinality(PostActs) = BagCardinality(PreActs)
          /\ BagCardinality(PostAct) = 1
          /\ devices = pre.devices
    /\ (/\ last.op = "register_device"
        /\ last.resp.status_code = 200
        /\ ~IsEmpty(PreDev))
       => /\ BagCardinality(PostDevs) = BagCardinality(PreDevs)
          /\ BagCardinality(PostDev) = 1
          /\ activations = pre.activations

\* Both flows have served a repeated call: register_device for a seated
\* hwid whose row it had already touched once.
C6_Witness ==
    /\ last.op = "register_device"
    /\ last.resp.status_code = 200
    /\ ~IsEmpty(PreDev)
    /\ FirstRow(PreDev).last_seen_at # None
    /\ ~IsEmpty(PostActs)

-----------------------------------------------------------------------------
\* The license of the last request was active and past its expires_at when
\* the request arrived.
PreLicenseExpired ==
    /\ ~IsEmpty(PreLicense)
    /\ FirstRow(PreLicense).status = "active"
    /\ FirstRow(PreLicense).expires_at # None
    /\ FirstRow(PreLicense).expires_at < pre.now

\* C8: for an active license whose expires_at is earlier than the current
\* time, activate and register_device answer 403 "License expired" for
\* every hwid, seated or not, return no token and leave every Activation
\* and Device row as it was.
C8_Expired ==
    (/\ last.op \in {"activate", "register_device"}
     /\ PreLicenseExpired)
    => /\ last.resp = HTTPException(403, "License expired")
       /\ activations = pre.activations
       /\ devices = pre.devices

\* register_device was refused on an expired license for an hwid that
\* holds a Device row and an Activation row.
C8_Witness ==
    /\ last.op = "register_device"
    /\ PreLicenseExpired
    /\ ~IsEmpty(PreDev)
    /\ ~IsEmpty(PreAct)
    /\ last.resp.detail = "License expired"

\* C7 as claimed: a successful activate or register_device for an hwid
\* that already holds a seat record leaves that record's last_seen_at equal
\* to the current time.
C7_LastSeenRefreshed ==
    /\ (/\ last.op = "activate"
        /\ last.resp.status_code = 200
        /\ ~IsEmpty(PreAct))
       => FirstRow(PostAct).last_seen_at = pre.now
    /\ (/\ last.op = "register_device"
        /\ last.resp.status_code = 200
        /\ ~IsEmpty(PreDev))
       => FirstRow(PostDev).last_seen_at = pre.now

\* The half of C7 the code keeps: register_device refreshes last_seen_at.
C7_RegisterRefreshes ==
    (/\ last.op = "register_device"
     /\ last.resp.status_code = 200
     /\ ~IsEmpty(PreDev))
    => FirstRow(PostDev).last_seen_at = pre.now

-----------------------------------------------------------------------------
\* C5: seat release is immediate.  On a full license (seat count =
\* max_devices) hwid b is refused with "Seats reached"; a seated hwid a is
\* then deactivated; the activate(key, b) that follows succeeds, returns a
\* token and seats b.
C5_SeatReleased ==
    scen.stage = "retried"
    => /\ last.op = "activate"
       /\ last.data.hwid = scen.b
       /\ last.resp.status_code = 200
       /\ verify_token(PUB_PEM, last.resp.body.token).ok
       /\ verify_token(PUB_PEM, last.resp.body.token).data.k = scen.key
       /\ BagCardinality(PostAct) = 1
       /\ IsEmpty(SelectActivation(activations, scen.key, scen.a))

\* The scenario has run to its end on a license of more than one seat.
C5_Witness ==
    /\ scen.stage = "retried"
    /\ last.resp.status_code = 200
    /\ FirstRow(PreLicense).max_devices > 1
    /\ BagCardinality(PostActs) = FirstRow(PreLicense).max_devices

-----------------------------------------------------------------------------
\* The payload in the token of the last validate request.
TokenData == unpackb(b64u_d(last.data.token.body).bytes).val

\* The token of the last validate request carries a good signature and has
\* not expired.
TokenGood ==
    /\ Ed25519Verify(PUB_PEM, b64u_d(last.data.token.sig).bytes,
                     b64u_d(last.data.token.body).bytes)
    /\ TokenData.e >= pre.now

\* The license the token of the last validate request names.
TokenLicense == SelectLicense(pre.licenses, TokenData.k)

\* C3: while the status of license L is not active (revoke(L) has
\* committed), every validate with a token issued for L answers 403
\* "License invalid" and changes nothing, although the token's signature is
\* good, its expiry lies in the future and the (L, hwid) seat may exist.
C3_RevokedRejected ==
    (/\ last.op = "validate"
     /\ TokenGood
     /\ ~IsEmpty(TokenLicense)
     /\ FirstRow(TokenLicense).status # "active")
    => /\ last.resp = HTTPException(403, "License invalid")
       /\ activations = pre.activations

\* validate was refused for a revoked license, with a good token and the
\* seat of the hwid still there.
C3_Witness ==
    /\ last.op = "validate"
    /\ TokenGood
    /\ ~IsEmpty(TokenLicense)
    /\ FirstRow(TokenLicense).status = "revoked"
    /\ ~IsEmpty(SelectActivation(activations, TokenData.k, last.data.hwid))
    /\ last.resp.detail = "License invalid"

-----------------------------------------------------------------------------
\* The status of the license of key k in tbl.
StatusIn(tbl, k) == FirstRow(SelectLicense(tbl, k)).status

\* C9 as claimed: a license whose status is revoked or deleted is not made
\* active again by any request.
C9_NeverResurrected ==
    \A k \in Keys :
        (/\ ~IsEmpty(SelectLicense(pre.licenses, k))
         /\ StatusIn(pre.licenses, k) \in {"revoked", "deleted"})
        => StatusIn(licenses, k) # "active"

\* C10 as claimed: revoke does not change the status of a deleted license
\* to revoked.
C10_DeletedStaysDeleted ==
    (/\ last.op = "revoke"
     /\ ~IsEmpty(PreLicense)
     /\ FirstRow(PreLicense).status = "deleted")
    => StatusIn(licenses, last.data.key) # "revoked"

-----------------------------------------------------------------------------
\* C1 as claimed: under every interleaving of activate calls, no license
\* has more Activation rows than its max_devices.
C1_ActivationCap ==
    \A l \in BagToSet(licenses) :
        BagCardinality(SelectActivations(activations, l.key)) <= l.max_devices

\* C2 as claimed: under every interleaving of register_device calls, no
\* license has more Device rows than its max_devices.
C2_DeviceCap ==
    \A l \in BagToSet(licenses) : CountDevices(devices, l.id) <= l.max_devices

-----------------------------------------------------------------------------
\* C11 as claimed: verify_token returns exactly the payload P of a token
\* signed for P whose expiry is not in the past, and rejects every token
\* made from an issued token by changing its payload segment or its
\* signature segment.
C11_RoundTripAndTamper ==
    last.op = "verify_token"
    => /\ (/\ last.data.token = last.data.issued
           /\ last.data.payload.e >= pre.now)
          => (last.resp.ok /\ last.resp.data = last.data.payload)
       /\ last.data.token # last.data.issued => ~last.resp.ok

\* The half of C11 the code keeps: the round trip of an untouched token.
C11_RoundTrip ==
    (/\ last.op = "verify_token"
     /\ last.data.token = last.data.issued
     /\ last.data.payload.e >= pre.now)
    => (last.resp.ok /\ last.resp.data = last.data.payload)

-----------------------------------------------------------------------------
\* Whether a response carries a token.
HasToken(resp) == "body" \in DOMAIN resp /\ "token" \in DOMAIN resp.body

\* C12: the token of a successful activate at time t carries the expiry
\* t + TokenTTL; a validate with a genuine token whose expiry is earlier
\* than the current time answers 401 "Invalid token" and changes nothing,
\* whatever the state of the license and of the seat; and no response other
\* than that of activate carries a token.
C12_TokenTTL ==
    /\ (last.op = "activate" /\ last.resp.status_code = 200)
       => /\ last.resp.body.exp = pre.now + TokenTTL
          /\ unpackb(b64u_d(last.resp.body.token.body).bytes).val.e
                = pre.now + TokenTTL
    /\ (/\ last.op = "validate"
        /\ Ed25519Verify(PUB_PEM, b64u_d(last.data.token.sig).bytes,
                         b64u_d(last.data.token.body).bytes)
        /\ TokenData.e < pre.now)
       => /\ last.resp = HTTPException(401, "Invalid token")
          /\ activations = pre.activations
    /\ (last.op \notin {"start", "tick", "activate"}) => ~HasToken(last.resp)

\* validate has refused a genuine token past its expiry although the
\* license was active and the hwid held its seat.
C12_Witness ==
    /\ last.op = "validate"
    /\ Ed25519Verify(PUB_PEM, b64u_d(last.data.token.sig).bytes,
                     b64u_d(last.data.token.body).bytes)
    /\ TokenData.e < pre.now
    /\ ~IsEmpty(TokenLicense)
    /\ FirstRow(TokenLicense).status = "active"
    /\ ~IsEmpty(SelectActivation(pre.activations, TokenData.k, last.data.hwid))
    /\ last.resp.status_code = 401

-----------------------------------------------------------------------------
\* C13: deactivate(key, hwid) answers 404 and changes nothing when no
\* Activation row exists for (key, hwid); otherwise it removes exactly that
\* one row: the license has one seat fewer and every other row, of other
\* hwids and of other licenses, is as it was.
C13_Deactivate ==
    last.op = "deactivate"
    => /\ licenses = pre.licenses
       /\ devices = pre.devices
       /\ IF IsEmpty(PreAct)
          THEN /\ last.resp = HTTPException(404, "Activation not found")
               /\ activations = pre.activations
          ELSE /\ last.resp.status_code = 200
               /\ BagCardinality(PostActs) = BagCardinality(PreActs) - 1
               /\ IsEmpty(PostAct)
               /\ activations (+) SetToBag({FirstRow(PreAct)}) = pre.activations

\* deactivate has removed a seat while another hwid of the same license
\* and the same hwid on the other license keep theirs.
C13_Witness ==
    /\ last.op = "deactivate"
    /\ last.resp.status_code = 200
    /\ ~IsEmpty(PostActs)
    /\ \E a \in BagToSet(activations) :
          a.license_key # last.data.key /\ a.hwid = last.data.hwid

-----------------------------------------------------------------------------
\* The hwids that hold a seat record of license lic, in either table.
SeatedHwids(lic) ==
    {a.hwid : a \in {r \in BagToSet(activations) : r.license_key = lic.key}}
    \cup {d.hwid : d \in {r \in BagToSet(devices) : r.license_id = lic.id}}

\* C14 as claimed: after any sequence of activate and register_device
\* calls on a license whose max_devices does not change, the number of
\* distinct hwids that hold an Activation row or a Device row of the
\* license is at most max_devices.
C14_DistinctSeatsCap ==
    \A lic \in BagToSet(licenses) :
        Cardinality(SeatedHwids(lic)) <= lic.max_devices

-----------------------------------------------------------------------------
\* The number of seat records activate counts against max_devices for key.
ActivateCount(key) == BagCardinality(SelectActivations(activations, key))

\* C15 as claimed: the used_devices that license_lookup,
\* get_license_public and list_licenses report for a license is the number
\* of seat records activate counts against its max_devices.
C15_UsedDevicesIsSeatCount ==
    /\ (/\ last.op \in {"license_lookup", "get_license_public"}
        /\ last.resp.status_code = 200)
       => last.resp.body.used_devices = ActivateCount(last.data.key)
    /\ (last.op = "list_licenses" /\ last.resp.status_code = 200)
       => \A item \in last.resp.body.items :
             item.used_devices = ActivateCount(item.key)

-----------------------------------------------------------------------------
\* C16: in every reachable state, also those reached by concurrent
\* activate or register_device calls for the same new hwid, there is at
\* most one Activation row per (license_key, hwid) and at most one Device
\* row per (license_id, hwid).
C16_SeatPairsUnique ==
    /\ \A a \in BagToSet(activations) :
          BagCardinality(SelectActivation(activations, a.license_key, a.hwid)) = 1
    /\ \A d \in BagToSet(devices) :
          BagCardinality(SelectDevice(devices, d.license_id, d.hwid)) = 1

\* Two activate calls for the same new hwid ran at once: one inserted the
\* row and the insert of the other was refused.
C16_Witness ==
    /\ last.op = "activate"
    /\ last.resp = ServerError
    /\ BagCardinality(SelectActivation(activations, last.data.key,
                                       last.data.hwid)) = 1

-----------------------------------------------------------------------------
\* C17 as claimed: create_license with a caller-supplied key that is the
\* key of an existing license answers 409, creates no license and leaves
\* the existing license as it was.
C17_DuplicateKeyConflict ==
    (/\ last.op = "create_license"
     /\ Truthy(last.data.key)
     /\ ~IsEmpty(PreLicense))
    => /\ last.resp.status_code = 409
       /\ licenses = pre.licenses

-----------------------------------------------------------------------------
\* The plan a create_license or update_license request carries, NoStr when
\* it carries none.
RequestPlan ==
    IF last.op = "create_license" THEN last.data.plan
    ELSE IF last.data.patch.plan = UnsetStr THEN NoStr
    ELSE last.data.patch.plan

\* C18 as claimed: the plan of every stored license is absent or one of
\* Free, Plus, Pro; a create_license request, or an update_license request
\* for an existing license, with any other plan answers 422 and changes
\* nothing.
C18_PlanAllowList ==
    /\ \A lic \in BagToSet(licenses) : lic.plan \in {NoStr} \cup ALLOWED_PLANS
    /\ (/\ last.op \in {"create_license", "update_license"}
        /\ last.op = "update_license" => ~IsEmpty(PreLicense)
        /\ RequestPlan \notin {NoStr} \cup ALLOWED_PLANS)
       => /\ last.resp.status_code = 422
          /\ licenses = pre.licenses

\* The half of C18 the code keeps: create_license refuses a plan that is
\* not on the list.
C18_CreateChecksPlan ==
    (/\ last.op = "create_license"
     /\ RequestPlan \notin {NoStr, ""} \cup ALLOWED_PLANS)
    => /\ last.resp.status_code = 422
       /\ licenses = pre.licenses

-----------------------------------------------------------------------------
\* C20: every successful update_license sets the license's updated_at to
\* the current time, also with an empty patch; every license has
\* updated_at >= created_at; and no request lowers the updated_at of a
\* license.
C20_UpdatedAt ==
    /\ (last.op = "update_license" /\ last.resp.status_code = 200)
       => FirstRow(SelectLicense(licenses, last.data.key)).updated_at = pre.now
    /\ \A lic \in BagToSet(licenses) : lic.updated_at >= lic.created_at
    /\ \A old \in BagToSet(pre.licenses) :
          \E lic \in BagToSet(licenses) :
             lic.id = old.id /\ lic.updated_at >= old.updated_at

\* An empty patch was applied some time after the license was created and
\* last patched.
C20_Witness ==
    /\ last.op = "update_license"
    /\ last.data.patch = EmptyPatch
    /\ last.resp.status_code = 200
    /\ FirstRow(PreLicense).updated_at < pre.now
    /\ FirstRow(PreLicense).created_at < FirstRow(PreLicense).updated_at
    /\ FirstRow(SelectLicense(licenses, last.data.key)).updated_at = pre.now

-----------------------------------------------------------------------------
\* No two License rows share a key.
KeysUnique ==
    \A k \in Keys : BagCardinality(SelectLicense(licenses, k)) <= 1

\* Every License row is still there, under its key, after the step.
LicensesKept ==
    \A old \in BagToSet(licenses) :
       \E lic \in BagToSet(licenses') : lic.id = old.id /\ lic.key = old.key

\* C19: no step removes a License row or changes its key, delete_license
\* only sets status to deleted, and at no time, concurrent create_license
\* calls included, do two License rows share a key.
C19_KeptAndUnique ==
    /\ []KeysUnique
    /\ [][LicensesKept]_vars
    /\ [][(last'.op = "delete_license" /\ last'.resp.status_code = 200)
          => \E lic \in BagToSet(licenses') :
                lic.key = last'.data.key /\ lic.status = "deleted"]_vars

\* A create_license that found its key free lost the race to another and
\* answered 409, and the license of that key has been deleted since.
C19_Witness ==
    /\ last.op = "create_license"
    /\ last.resp.status_code = 409
    /\ last.data.key \in Keys
    /\ \E lic \in BagToSet(licenses) :
          lic.key = last.data.key /\ lic.status = "deleted"

-----------------------------------------------------------------------------
\* The License row of the last request's key after the request.
PostLicense == SelectLicense(licenses, last.data.key)

\* The License rows of the other keys.
OtherLicenses(tbl) ==
    Rows(tbl, {l \in BagToSet(tbl) : l.key # last.data.key})

\* C21: update_license changes, in the license of its key, only the fields
\* the patch names (expires_at for expires_days) and updated_at; key, id,
\* created_at, license, max_version and the fields not named stay as they
\* were, and so does every other license; for an unknown key it answers 404
\* and changes nothing.
C21_PartialMerge ==
    last.op = "update_license" =>
       LET patch == last.data.patch
       IN  /\ OtherLicenses(licenses) = OtherLicenses(pre.licenses)
           /\ <<activations, devices>> = <<pre.activations, pre.devices>>
           /\ IsEmpty(PreLicense) =>
                 /\ last.resp.status_code = 404
                 /\ licenses = pre.licenses
           /\ ~IsEmpty(PreLicense) =>
                 /\ BagCardinality(PostLicense) = 1
                 /\ LET old == FirstRow(PreLicense)
                        lic == FirstRow(PostLicense)
                    IN  /\ lic.key = old.key
                        /\ lic.id = old.id
                        /\ lic.created_at = old.created_at
                        /\ lic.license = old.license
                        /\ lic.max_version = old.max_version
                        /\ patch.status = UnsetStr => lic.status = old.status
                        /\ patch.plan = UnsetStr => lic.plan = old.plan
                        /\ patch.max_devices = Unset => lic.max_devices = old.max_devices
                        /\ patch.notes = UnsetStr => lic.notes = old.notes
                        /\ patch.expires_days = Unset => lic.expires_at = old.expires_at
                        /\ last.resp.status_code = 200 =>
                              /\ patch.status # UnsetStr => lic.status = patch.status
                              /\ patch.plan # UnsetStr => lic.plan = patch.plan
                              /\ patch.max_devices # Unset
                                    => lic.max_devices = patch.max_devices
                              /\ patch.notes # UnsetStr => lic.notes = patch.notes
                              /\ patch.expires_days \notin {Unset, None}
                                    => lic.expires_at = pre.now + patch.expires_days

\* A patch that names the plan alone was applied, some time after its
\* creation, to a license that has notes, a status and an expiry of its
\* own, next to another license.
C21_Witness ==
    /\ last.op = "update_license"
    /\ last.resp.status_code = 200
    /\ last.data.patch =
          [status |-> UnsetStr, plan |-> "Pro", max_devices |-> Unset,
           expires_days |-> Unset, notes |-> UnsetStr]
    /\ ~IsEmpty(PreLicense)
    /\ FirstRow(PreLicense).notes # NoStr
    /\ FirstRow(PreLicense).status = "revoked"
    /\ FirstRow(PreLicense).expires_at # None
    /\ FirstRow(PreLicense).plan = "Free"
    /\ FirstRow(PreLicense).created_at < pre.now
    /\ FirstRow(PostLicense).plan = "Pro"
    /\ ~IsEmpty(OtherLicenses(licenses))

-----------------------------------------------------------------------------
\* The n-th dot-separated component of s: the characters that are no dot
\* and have n - 1 dots before them.
Component(s, n) ==
    LET at == {p \in 1..Len(s) :
                  /\ s[p] # "."
                  /\ Cardinality({q \in 1..p : s[q] = "."}) = n - 1}
    IN  IF at = {} THEN << >>
        ELSE SubSeq(s, CHOOSE p \in at : \A q \in at : p <= q,
                       CHOOSE p \in at : \A q \in at : p >= q)

RECURSIVE Pow10(_)
Pow10(n) == IF n = 0 THEN 1 ELSE 10 * Pow10(n - 1)

RECURSIVE SumTo(_, _)
SumTo(c, n) ==
    IF n = 0 THEN 0 ELSE SumTo(c, n - 1) + (DigitVal(c[n]) * Pow10(Len(c) - n))

\* The integer a component stands for, 0 for a missing or non-numeric one.
ComponentValue(c) ==
    IF c # << >> /\ \A p \in 1..Len(c) : c[p] \in Digits THEN SumTo(c, Len(c)) ELSE 0

\* parse of the claim, on a string without white space.
Triple(s) ==
    IF s = NoneVer THEN <<0, 0, 0>>
    ELSE [n \in 1..3 |-> ComponentValue(Component(s, n))]

LexLe(x, y) ==
    \/ x[1] < y[1]
    \/ x[1] = y[1] /\ x[2] < y[2]
    \/ x[1] = y[1] /\ x[2] = y[2] /\ x[3] <= y[3]

Spaceless(s) == \A p \in 1..Len(s) : s[p] # " "

\* C22: _version_lte(a, b) always answers, and it answers true exactly
\* when the triple of a is lexicographically <= the triple of b, where the
\* triple holds the integer values of the first three dot-separated
\* components and 0 for a missing or non-numeric one; "1.2.3" <= "1.2.10"
\* is true, "2.0.0" <= "1.9.9" is false and "" <= "1.0.0" is true.
C22_VersionLte ==
    last.op = "_version_lte" =>
       LET a == last.data.a
           b == last.data.b
       IN  /\ last.resp \in BOOLEAN
           /\ (Spaceless(a) /\ Spaceless(b))
                 => (last.resp <=> LexLe(Triple(a), Triple(b)))
           /\ (a = <<"1", ".", "2", ".", "3">> /\ b = <<"1", ".", "2", ".", "1", "0">>)
                 => last.resp
           /\ (a = <<"2", ".", "0", ".", "0">> /\ b = <<"1", ".", "9", ".", "9">>)
                 => ~last.resp
           /\ (a = << >> /\ b = <<"1", ".", "0", ".", "0">>) => last.resp

\* "1.2.3" was compared with "1.2.10" and found to be <=.
C22_Witness ==
    /\ last.op = "_version_lte"
    /\ last.data.a = <<"1", ".", "2", ".", "3">>
    /\ last.data.b = <<"1", ".", "2", ".", "1", "0">>
    /\ last.resp = TRUE

-----------------------------------------------------------------------------
\* The hwids seated on the license of key in an Activation table, and on
\* the license id in a Device table.
ActHwids(tbl, key) == {a.hwid : a \in BagToSet(SelectActivations(tbl, key))}
DevHwids(tbl, id) == {d.hwid : d \in {x \in BagToSet(tbl) : x.license_id = id}}

\* The seats of a Device table: the rows without what the client reported
\* about itself.
DevSeats(tbl) == {<<d.license_id, d.hwid, CopiesIn(d, tbl)>> : d \in BagToSet(tbl)}

\* What a caller and the seat tables show of an activate result on the
\* license of key: the answer, the seats and the token's cap and plan.
ActOutcome(r, key) ==
    [status_code |-> r.resp.status_code, detail |-> r.resp.detail,
     seats |-> ActHwids(r.activations, key),
     count |-> BagCardinality(SelectActivations(r.activations, key)),
     token |-> IF r.resp.status_code = 200
               THEN LET data == verify_token(PUB_PEM, r.resp.body.token).data
                    IN  <<data.m, data.p, r.resp.body.max_devices, r.resp.body.plan>>
               ELSE << >>]

\* The same of a register_device result on the license id.
RegOutcome(r, id) ==
    [status_code |-> r.resp.status_code, detail |-> r.resp.detail,
     seats |-> DevHwids(r.devices, id),
     count |-> CountDevices(r.devices, id),
     used |-> IF r.resp.status_code = 200 THEN r.resp.body.used_devices ELSE 0]

\* Two licenses that differ in max_version (and in key and id), with the
\* same hwids seated.
DifferInMaxVersion(l1, l2) ==
    /\ l1.key # l2.key
    /\ l1.max_version # l2.max_version
    /\ [l1 EXCEPT !.key = l2.key, !.id = l2.id, !.max_version = l2.max_version] = l2
    /\ ActHwids(activations, l1.key) = ActHwids(activations, l2.key)
    /\ DevHwids(devices, l1.id) = DevHwids(devices, l2.id)

\* C23: in every state, activate answers the same, leaves the same
\* Activation table and signs the same token whatever app_ver the request
\* carries; register_device answers the same and seats the same (license,
\* hwid) whatever app_ver it carries; and on two licenses that differ only
\* in max_version both answer alike, seat the same hwids and issue a token
\* with the same cap and plan.
C23_PolicyGateOnly ==
    /\ \A data \in ActivateVerInputs(Keys, HwidsT), v \in AppVers :
          LET r1 == activate(data)
              r2 == activate([data EXCEPT !.app_ver = v])
          IN  /\ r1 = r2
              /\ r1.resp.status_code = 200 =>
                    verify_token(PUB_PEM, r1.resp.body.token).data.k = data.key
    /\ \A data \in RegisterVerInputs(Keys, HwidsT), v \in AppVers :
          LET r1 == register_device(data)
              r2 == register_device([data EXCEPT !.app_ver = v])
          IN  /\ r1.resp = r2.resp
              /\ DevSeats(r1.devices) = DevSeats(r2.devices)
    /\ \A l1 \in BagToSet(licenses), l2 \in BagToSet(licenses) :
          DifferInMaxVersion(l1, l2) =>
             \A h \in HwidsT, v \in AppVers :
                /\ ActOutcome(activate([key |-> l1.key, hwid |-> h, app_ver |-> v]),
                              l1.key)
                   = ActOutcome(activate([key |-> l2.key, hwid |-> h, app_ver |-> v]),
                                l2.key)
                /\ RegOutcome(register_device(
                                 [key |-> l1.key, hwid |-> h, hostname |-> NoStr,
                                  platform |-> NoStr, app_ver |-> v]), l1.id)
                   = RegOutcome(register_device(
                                   [key |-> l2.key, hwid |-> h, hostname |-> NoStr,
                                    platform |-> NoStr, app_ver |-> v]), l2.id)

\* A client of version 1.0.0 was given a seat and a token on a license
\* whose max_version is 0.0.1, next to a license that differs from it in
\* max_version only.
C23_Witness ==
    /\ last.op = "activate"
    /\ last.data.app_ver = "1.0.0"
    /\ last.resp.status_code = 200
    /\ IsEmpty(PreAct)
    /\ ~IsEmpty(PostAct)
    /\ FirstRow(PreLicense).max_version = "0.0.1"
    /\ ~version_lte(Chars(last.data.app_ver), Chars(FirstRow(PreLicense).max_version))
    /\ \E l2 \in BagToSet(licenses) :
          /\ l2.max_version = "2.0.0"
          /\ [l2 EXCEPT !.key = last.data.key, !.id = FirstRow(PreLicense).id,
                        !.max_version = "0.0.1"] = FirstRow(PreLicense)

-----------------------------------------------------------------------------
\* Whether the text of the column col contains q as a substring; exact
\* for C24 as claimed, without regard to case for the amended claim.
Contains(col, q, fold) ==
    /\ col # NoStr
    /\ LET text == IF fold THEN lower(Ascii(col)) ELSE Ascii(col)
           term == IF fold THEN lower(Ascii(q)) ELSE Ascii(q)
       IN  \E i \in 0..(Len(text) - Len(term)) :
              \A j \in 1..Len(term) : text[i + j] = term[j]

\* The keys of the licenses the last list_licenses returned.
ListedKeys == {item.key : item \in last.resp.body.items}

\* A list_licenses call with a search term was answered.
Searched ==
    /\ last.op = "list_licenses"
    /\ last.resp.status_code = 200
    /\ last.data # << >>
    /\ Truthy(last.data.q)

\* C24 as claimed: list_licenses with a search term q returns exactly the
\* licenses whose key, plan or notes contain q, and total is their number.
C24_SearchKeyPlanNotes ==
    Searched =>
       LET hits == {lic \in BagToSet(licenses) :
                       \/ Contains(lic.key, last.data.q, FALSE)
                       \/ Contains(lic.plan, last.data.q, FALSE)
                       \/ Contains(lic.notes, last.data.q, FALSE)}
       IN  /\ ListedKeys = {lic.key : lic \in hits}
           /\ last.resp.body.total = Cardinality(hits)

\* C24 amended: list_licenses with a search term q that has no % and no _
\* returns exactly the licenses whose key, plan or status contain q
\* without regard to case, and total is their number.
C24_SearchKeyPlanStatus ==
    (Searched /\ \A i \in 1..Len(Ascii(last.data.q)) :
                    Ascii(last.data.q)[i] \notin {37, 95})
    => LET hits == {lic \in BagToSet(licenses) :
                       \/ Contains(lic.key, last.data.q, TRUE)
                       \/ Contains(lic.plan, last.data.q, TRUE)
                       \/ Contains(lic.status, last.data.q, TRUE)}
       IN  /\ ListedKeys = {lic.key : lic \in hits}
           /\ last.resp.body.total = Cardinality(hits)

\* A search for "mem" next to a license whose notes are "memo" and one
\* without notes found neither, and a search for "act" found the active
\* license of the two.
C24_Witness ==
    /\ Searched
    /\ last.data.q = "act"
    /\ Cardinality(ListedKeys) = 1
    /\ BagCardinality(licenses) = 2
    /\ \E lic \in BagToSet(licenses) :
          lic.key \in ListedKeys /\ lic.status = "active" /\ lic.notes = NoStr
    /\ \E lic \in BagToSet(licenses) :
          lic.key \notin ListedKeys /\ lic.status = "revoked" /\ lic.notes = "memo"

-----------------------------------------------------------------------------
\* The rank of a place among the five sources of key material.
Rank(place) ==
    CASE place \in {"/etc/secrets/license", "/etc/secrets/private"} -> 1
      [] place = "PRIVATE_KEY_PEM" -> 2
      [] place = "PRIVATE_KEY_PEM_B64" -> 3
      [] place = "PRIVATE_KEY_FILE" -> 4
      [] place \in {"Key/license", "keys/private"} -> 5

\* The places of the environment that hold both keys.
PresentPlaces(env) == {p \in DOMAIN env : env[p].priv # NoPem /\ env[p].pub # NoPem}

\* The key a place holds, out of its encoding.
KeyText(v) == IF "b64" \in DOMAIN v THEN v.b64 ELSE v

\* C25: the key pair in use after startup comes from a present source that
\* no present source outranks; startup fails when no source is present,
\* and it fails when the keys of the source that decides are not Ed25519.
C25_FirstMatchWins ==
    last.op = "startup" =>
       LET env == last.data
           present == PresentPlaces(env)
           top == {p \in present : \A o \in present : Rank(p) <= Rank(o)}
       IN  /\ present = {} => ~last.resp.ok
           /\ last.resp.ok =>
                 /\ last.resp.priv.at \in top
                 /\ last.resp.pub.at = last.resp.priv.at
                 /\ last.resp.priv = KeyText(env[last.resp.priv.at].priv)
                 /\ last.resp.pub = KeyText(env[last.resp.priv.at].pub)
                 /\ last.resp.priv.kind = "Ed25519"
                 /\ last.resp.pub.kind = "Ed25519"
                 /\ \A o \in present : Rank(o) >= Rank(last.resp.priv.at)
           /\ (present # {} /\ \A p \in top : KeyText(env[p].priv).kind = "Ed25519"
                                              /\ KeyText(env[p].pub).kind = "Ed25519")
                 => last.resp.ok
           /\ (present # {} /\ \A p \in top : KeyText(env[p].priv).kind # "Ed25519"
                                              \/ KeyText(env[p].pub).kind # "Ed25519")
                 => ~last.resp.ok

\* The secret files hold only a private key, the PEM variables hold an
\* Ed25519 pair and so do the base64 variables and the local directory:
\* the pair of the PEM variables is in use.
C25_Witness ==
    /\ last.op = "startup"
    /\ last.resp.ok
    /\ last.resp.priv.at = "PRIVATE_KEY_PEM"
    /\ last.data["/etc/secrets/license"].priv # NoPem
    /\ last.data["/etc/secrets/license"].pub = NoPem
    /\ last.data["/etc/secrets/private"].priv = NoPem
    /\ last.data["PRIVATE_KEY_PEM_B64"].pub # NoPem
    /\ last.data["Key/license"].pub # NoPem

-----------------------------------------------------------------------------
AdminOps ==
    {"create_license", "list_licenses", "get_license_detail", "update_license",
     "delete_license", "revoke", "list_activations"}

\* The bearer token of the last request, or, when it has none, its
\* X-Admin-Token header.
Presented ==
    IF last.auth.creds \notin {NoStr, ""} THEN last.auth.creds
    ELSE last.auth.x_admin_token

\* The last request was refused with 401 and wrote nothing.
Refused ==
    /\ last.resp = HTTPException(401, "Unauthorized")
    /\ <<licenses, activations, devices>>
          = <<pre.licenses, pre.activations, pre.devices>>

\* C26 as claimed: an admin operation whose bearer token, or X-Admin-Token
\* header when there is no bearer token, is not equal to the secret is
\* refused with 401 and changes nothing; it gets past the check only when
\* that credential equals the secret.
C26_AdminAuthExact ==
    last.op \in AdminOps =>
       /\ Presented # ADMIN_TOKEN => Refused
       /\ last.resp.status_code # 401 => Presented = ADMIN_TOKEN

\* C26 amended: the same, with the X-Admin-Token header compared after the
\* white space around it is removed.
C26_AdminAuthStripped ==
    last.op \in AdminOps =>
       LET secret == IF last.auth.creds \notin {NoStr, ""}
                     THEN {ADMIN_TOKEN}
                     ELSE {ADMIN_TOKEN, " change-me "}
       IN  /\ Presented \notin secret => Refused
           /\ Presented \in secret => last.resp.status_code # 401

\* update_license with a wrong bearer token and the right X-Admin-Token
\* was refused on an active license with a seat taken, which would
\* otherwise have been revoked.
C26_Witness ==
    /\ last.op = "update_license"
    /\ last.auth = [creds |-> "wrong", x_admin_token |-> ADMIN_TOKEN]
    /\ last.data.patch.status = "revoked"
    /\ Refused
    /\ ~IsEmpty(PreLicense)
    /\ FirstRow(PreLicense).status = "active"
    /\ activations # EmptyBag

-----------------------------------------------------------------------------
\* The candidate keys of the last create_license in the order the loop
\* meets them: the caller's key, if any, and then the generated ones.
Candidates ==
    IF Truthy(last.data.key) THEN <<last.data.key>> \o last.data.draws
    ELSE last.data.draws

\* The candidates, among the first and five regenerations, that no license
\* had when the request arrived.
FreeCandidates ==
    {i \in 1..6 : IsEmpty(SelectLicense(pre.licenses, Candidates[i]))}

\* C27: create_license tries the first candidate key and at most 5
\* regenerated ones; when all six are taken it answers 500 and creates no
\* license; otherwise it creates one license under the first free
\* candidate, a key no license had before.
C27_BoundedKeyRetry ==
    (last.op = "create_license" /\ last.resp.status_code \notin {401, 422}) =>
       IF FreeCandidates = {}
       THEN /\ last.resp = HTTPException(500, "Cannot generate unique key")
            /\ licenses = pre.licenses
       ELSE LET i == CHOOSE j \in FreeCandidates : \A k \in FreeCandidates : j <= k
            IN  /\ last.resp.status_code = 200
                /\ last.resp.body.key = Candidates[i]
                /\ \A old \in BagToSet(pre.licenses) : old.key # last.resp.body.key
                /\ BagCardinality(licenses) = BagCardinality(pre.licenses) + 1
                /\ BagCardinality(SelectLicense(licenses, Candidates[i])) = 1
                /\ pre.licenses \sqsubseteq licenses

\* The caller's key and four regenerated keys were taken and the fifth
\* regeneration was free: the license was created under it.
C27_Witness ==
    /\ last.op = "create_license"
    /\ last.data.key = "K1"
    /\ FreeCandidates = {6}
    /\ last.resp.status_code = 200
    /\ last.resp.body.key = "K3"

\* The caller's key and five regenerated keys were taken, and a sixth
\* generated key would have been free: 500.
C27_WitnessExhausted ==
    /\ last.op = "create_license"
    /\ last.data.key = "K1"
    /\ FreeCandidates = {}
    /\ IsEmpty(SelectLicense(pre.licenses, Candidates[7]))
    /\ last.resp.status_code = 500

-----------------------------------------------------------------------------
\* Every Device row is still there, for its license and hwid, after the
\* step, and no license has fewer Device rows than before.
DevicesKept ==
    /\ \A old \in BagToSet(devices) :
          ~IsEmpty(SelectDevice(devices', old.license_id, old.hwid))
    /\ \A lic \in BagToSet(licenses) :
          CountDevices(devices', lic.id) >= CountDevices(devices, lic.id)

\* C28: no step removes a Device row: a (license, hwid) registered by
\* register_device has a Device row in every later state, also after
\* deactivate, revoke and delete_license, and list_licenses counts every
\* Device row of a license in its used_devices.
C28_DeviceRowsStay ==
    /\ [][DevicesKept]_vars
    /\ [](\A d \in BagToSet(devices) :
             (last.op = "list_licenses" /\ last.resp.status_code = 200)
             => \E item \in last.resp.body.items :
                   /\ item.id = d.license_id
                   /\ item.used_devices = Cardinality(DevHwids(devices, d.license_id)))

\* A hwid registered and activated on a license was deactivated and the
\* license deleted: list_licenses still counts its Device row.
C28_Witness ==
    /\ last.op = "list_licenses"
    /\ last.resp.status_code = 200
    /\ activations = EmptyBag
    /\ \E lic \in BagToSet(licenses) :
          /\ lic.status = "deleted"
          /\ CountDevices(devices, lic.id) = 1
          /\ \E d \in BagToSet(devices) : d.license_id = lic.id /\ d.last_seen_at = None
          /\ \E item \in last.resp.body.items :
                item.id = lic.id /\ item.used_devices = 1

-----------------------------------------------------------------------------
\* C29: with requests served one after another and max_devices never
\* changed, every license has at most max_devices Activation rows in every
\* reachable state, whatever activate, validate and deactivate calls were
\* made.
C29_SeatsWithinCap ==
    \A lic \in BagToSet(licenses) :
       BagCardinality(SelectActivations(activations, lic.key)) <= lic.max_devices

\* A license with more than one seat allowed is full, after a seat of it
\* was released and taken again, and has refused a further hwid.
C29_Witness ==
    /\ last.op = "activate"
    /\ last.resp.detail = "Seats reached"
    /\ PreLicenseGood
    /\ FirstRow(PreLicense).max_devices = MaxCap
    /\ BagCardinality(SelectActivations(activations, last.data.key)) = MaxCap
    /\ IsEmpty(SelectActivation(activations, last.data.key, last.data.hwid))
    /\ \E a \in BagToSet(activations) : a.last_seen_at # None

-----------------------------------------------------------------------------
\* What the request met: no usable license, an expired one, a full one.
PreInvalid == IsEmpty(PreLicense) \/ FirstRow(PreLicense).status # "active"

PreExpired ==
    /\ ~IsEmpty(PreLicense)
    /\ FirstRow(PreLicense).expires_at # None
    /\ FirstRow(PreLicense).expires_at < pre.now

PreFull ==
    /\ ~IsEmpty(PreLicense)
    /\ IsEmpty(PreAct)
    /\ BagCardinality(PreActs) >= FirstRow(PreLicense).max_devices

\* C30: activate answers 403 "License invalid" when the license is absent
\* or not active, whether or not it is also expired or full; otherwise 403
\* "License expired" when expires_at is in the past, whether or not it is
\* also full; otherwise 403 "Seats reached" when it is full; and a refused
\* activate leaves every seat record as it was and returns no token.
C30_CheckOrder ==
    last.op = "activate" =>
       /\ last.resp.detail =
             IF PreInvalid THEN "License invalid"
             ELSE IF PreExpired THEN "License expired"
             ELSE IF PreFull THEN "Seats reached"
             ELSE "ok"
       /\ last.resp.status_code = IF last.resp.detail = "ok" THEN 200 ELSE 403
       /\ last.resp.status_code # 200 =>
             /\ activations = pre.activations
             /\ devices = pre.devices
             /\ "body" \notin DOMAIN last.resp

\* A license that is revoked, expired and full has answered a new hwid
\* with "License invalid".
C30_Witness ==
    /\ last.op = "activate"
    /\ ~IsEmpty(PreLicense)
    /\ FirstRow(PreLicense).status = "revoked"
    /\ PreExpired
    /\ PreFull
    /\ last.resp = HTTPException(403, "License invalid")

\* A license that is active, expired and full has answered a new hwid with
\* "License expired".
C30_WitnessExpiredFull ==
    /\ last.op = "activate"
    /\ ~PreInvalid
    /\ PreExpired
    /\ PreFull
    /\ last.resp = HTTPException(403, "License expired")

-----------------------------------------------------------------------------
\* The token of the last validate request, as the claim sorts it.
TokenMalformed ==
    \/ ~b64u_d(last.data.token.body).ok
    \/ ~b64u_d(last.data.token.sig).ok
    \/ ~unpackb(b64u_d(last.data.token.body).bytes).ok

TokenTampered == last.data.token # last.data.issued

TokenPastExpiry ==
    /\ ~TokenMalformed
    /\ "e" \in DOMAIN TokenData
    /\ TokenData.e < pre.now

\* What the claim has validate answer, given which of the three checks
\* fails first; bad tells whether the token is to be refused.
ValidateExpected(bad) ==
    IF bad THEN HTTPException(401, "Invalid token")
    ELSE IF IsEmpty(TokenLicense) \/ FirstRow(TokenLicense).status # "active"
    THEN HTTPException(403, "License invalid")
    ELSE IF IsEmpty(SelectActivation(pre.activations, TokenData.k, last.data.hwid))
    THEN HTTPException(403, "Device not activated")
    ELSE Ok([ok |-> TRUE, plan |-> FirstRow(TokenLicense).plan,
             max_devices |-> FirstRow(TokenLicense).max_devices,
             kid |-> TokenData.kid])

\* What validate may change: nothing when it refuses, and last_seen_at of
\* the seat row of (license, hwid) when it succeeds.
ValidateFrame ==
    /\ licenses = pre.licenses
    /\ devices = pre.devices
    /\ IF last.resp.status_code # 200
       THEN activations = pre.activations
       ELSE LET act == FirstRow(SelectActivation(pre.activations, TokenData.k,
                                                 last.data.hwid))
            IN  activations =
                   UpdateRow(pre.activations, act, [act EXCEPT !.last_seen_at = pre.now])

\* C31: validate answers 401 "Invalid token" for a malformed, a tampered
\* or an expired token whatever the license and the seat, else 403
\* "License invalid" when the license of the token is absent or not active,
\* else 403 "Device not activated" when (license, hwid) has no seat record;
\* a refused validate changes nothing and a successful one changes only
\* last_seen_at of the matched seat record.
C31_ValidateOrder ==
    last.op = "validate" =>
       /\ last.resp = ValidateExpected(TokenMalformed \/ TokenTampered \/ TokenPastExpiry)
       /\ ValidateFrame

\* The part of C31 the code keeps: the same order and the same frame, with
\* "tampered" read on the decoded bytes (the signature does not fit them).
C31_OrderOnDecodedToken ==
    last.op = "validate" =>
       /\ last.resp =
             ValidateExpected(
                \/ TokenMalformed
                \/ ~Ed25519Verify(PUB_PEM, b64u_d(last.data.token.sig).bytes,
                                  b64u_d(last.data.token.body).bytes)
                \/ TokenPastExpiry)
       /\ ValidateFrame

\* A token whose text was changed is accepted: validate answered 200 and
\* refreshed the seat.
C31_TamperedAccepted ==
    /\ last.op = "validate"
    /\ TokenTampered
    /\ last.resp.status_code = 200
    /\ activations # pre.activations

-----------------------------------------------------------------------------
\* C32: a seated hwid is not subject to the cap.  On an active, unexpired
\* license, whatever max_devices is now (also below the number of seats,
\* after update_license lowered it): activate for an hwid that holds an
\* Activation row and register_device for an hwid that holds a Device row
\* succeed and evict nothing; update_license leaves every seat record; and
\* activate for an hwid without a row answers "Seats reached" as long as
\* the license has max_devices Activation rows or more, and succeeds once
\* it has fewer.
C32_SeatedExemptFromCap ==
    /\ (last.op = "activate" /\ PreLicenseGood /\ ~IsEmpty(PreAct))
       => /\ last.resp.status_code = 200
          /\ HasToken(last.resp)
          /\ activations = pre.activations
    /\ (last.op = "register_device" /\ PreLicenseGood /\ ~IsEmpty(PreDev))
       => /\ last.resp.status_code = 200
          /\ DevHwids(devices, FirstRow(PreLicense).id)
                = DevHwids(pre.devices, FirstRow(PreLicense).id)
          /\ BagCardinality(devices) = BagCardinality(pre.devices)
    /\ last.op = "update_license"
       => activations = pre.activations /\ devices = pre.devices
    /\ (last.op = "activate" /\ PreLicenseGood /\ IsEmpty(PreAct))
       => IF BagCardinality(PreActs) >= FirstRow(PreLicense).max_devices
          THEN /\ last.resp = SeatsReached(FirstRow(PreLicense).max_devices)
               /\ activations = pre.activations
          ELSE /\ last.resp.status_code = 200
               /\ BagCardinality(PostActs) = BagCardinality(PreActs) + 1

\* A license holds more Activation rows than its lowered max_devices, and
\* an hwid that holds one of them has activated again: 200, nothing evicted.
C32_Witness ==
    /\ last.op = "activate"
    /\ PreLicenseGood
    /\ ~IsEmpty(PreAct)
    /\ BagCardinality(PreActs) > FirstRow(PreLicense).max_devices
    /\ last.resp.status_code = 200
    /\ activations = pre.activations

\* The same for register_device and the Device rows.
C32_WitnessRegister ==
    /\ last.op = "register_device"
    /\ PreLicenseGood
    /\ ~IsEmpty(PreDev)
    /\ BagCardinality(PreDevs) > FirstRow(PreLicense).max_devices
    /\ last.resp.status_code = 200

-----------------------------------------------------------------------------
\* C33: license_lookup and get_license_public answer 404 "Not found" for
\* an unknown key and 403 "License invalid" for a license that is not
\* active; for an active license they answer 200 also when expires_at is in
\* the past, with expired true exactly when expires_at is set and earlier
\* than the current time; app_allowed is in the answer only when an app_ver
\* came with the request, and then it tells whether the triple of app_ver
\* is <= the triple of max_version; and they change no record.
C33_PublicReads ==
    last.op \in {"license_lookup", "get_license_public"} =>
       /\ licenses = pre.licenses
       /\ activations = pre.activations
       /\ devices = pre.devices
       /\ IF IsEmpty(PreLicense) THEN last.resp = HTTPException(404, "Not found")
          ELSE IF FirstRow(PreLicense).status # "active"
          THEN last.resp = HTTPException(403, "License invalid")
          ELSE /\ last.resp.status_code = 200
               /\ last.resp.body.key = last.data.key
               /\ last.resp.body.expired
                     = (/\ FirstRow(PreLicense).expires_at # None
                        /\ FirstRow(PreLicense).expires_at < pre.now)
               /\ "app_allowed" \in DOMAIN last.resp.body
                     => /\ last.data.app_ver # NoStr
                        /\ last.resp.body.app_ver = last.data.app_ver
                        /\ last.resp.body.app_allowed
                              = LexLe(Triple(Chars(last.data.app_ver)),
                                      Triple(Chars(FirstRow(PreLicense).max_version)))

\* An active license past its expires_at was looked up with an app_ver
\* newer than its max_version: 200, expired, app_allowed false.
C33_Witness ==
    /\ last.op \in {"license_lookup", "get_license_public"}
    /\ last.resp.status_code = 200
    /\ last.resp.body.expired
    /\ "app_allowed" \in DOMAIN last.resp.body
    /\ ~last.resp.body.app_allowed
    /\ last.resp.body.used_devices = 1

\* An app_ver came with the request and the answer has no app_allowed: the
\* license's max_version is empty.
C33_WitnessNoMaxVersion ==
    /\ last.op \in {"license_lookup", "get_license_public"}
    /\ last.resp.status_code = 200
    /\ last.data.app_ver # NoStr
    /\ "app_allowed" \notin DOMAIN last.resp.body

-----------------------------------------------------------------------------
\* C34: validate(token, hwid) answers 200 exactly when the token verifies
\* and has not expired, the license it names exists with status active, and
\* an Activation row exists for (that key, hwid).  Nothing else counts: not
\* the hwid whose activation the token came from, and not the license's
\* expires_at.
C34_ValidateExactly ==
    last.op = "validate" =>
       (last.resp.status_code = 200
        <=> /\ TokenGood
            /\ ~IsEmpty(TokenLicense)
            /\ FirstRow(TokenLicense).status = "active"
            /\ ~IsEmpty(SelectActivation(pre.activations, TokenData.k,
                                         last.data.hwid)))

\* Hwid B validated with a token that came from an activation of hwid A,
\* which holds no seat any more, on a license past its expires_at: 200.
C34_Witness ==
    /\ last.op = "validate"
    /\ last.data.hwid = "B"
    /\ last.data.token = held
    /\ IsEmpty(SelectActivation(pre.activations, TokenData.k, "A"))
    /\ FirstRow(TokenLicense).expires_at # None
    /\ FirstRow(TokenLicense).expires_at < pre.now
    /\ last.resp.status_code = 200

-----------------------------------------------------------------------------
\* C35: revoke, delete_license and update_license leave the Activation and
\* the Device table exactly as they were, so a revoked or deleted license
\* keeps its seats; and deactivate removes the Activation row of
\* (key, hwid) whatever the license is: revoked, deleted or expired.
C35_AdminLeavesSeats ==
    /\ last.op \in {"revoke", "delete_license", "update_license"}
       => activations = pre.activations /\ devices = pre.devices
    /\ (last.op = "deactivate" /\ ~IsEmpty(PreAct))
       => /\ last.resp.status_code = 200
          /\ IsEmpty(PostAct)
          /\ BagCardinality(activations) = BagCardinality(pre.activations) - 1
          /\ devices = pre.devices

\* A license that is not active any more and past its expires_at still had
\* its seats of both kinds, and deactivate removed one Activation row.
C35_Witness ==
    /\ last.op = "deactivate"
    /\ ~IsEmpty(PreLicense)
    /\ FirstRow(PreLicense).status \in {"revoked", "deleted"}
    /\ FirstRow(PreLicense).expires_at # None
    /\ FirstRow(PreLicense).expires_at < pre.now
    /\ BagCardinality(PreActs) = MaxCap
    /\ BagCardinality(PreDevs) = MaxCap
    /\ last.resp.status_code = 200
    /\ BagCardinality(PostActs) = MaxCap - 1

-----------------------------------------------------------------------------
\* The step inserts a seat record for the license key, or answers an
\* activate for it with a token.
SeatInserted(key) ==
    \/ BagCardinality(SelectActivations(activations', key))
          > BagCardinality(SelectActivations(activations, key))
    \/ \E lic \in BagToSet(licenses) :
          /\ lic.key = key
          /\ CountDevices(devices', lic.id) > CountDevices(devices, lic.id)

TokenIssued(key) ==
    \E w \in Workers :
       /\ procs[w].pc = "act_token"
       /\ procs[w].data.key = key
       /\ procs'[w] = Idle
       /\ HasToken(last'.resp)

\* C36: under every interleaving of activate and register_device with
\* revoke and delete_license on one license, a seat record is inserted and
\* a token is issued only while the stored status of the license is
\* active, never after the commit that made it revoked or deleted.
C36_NoSeatAfterRevoke ==
    [][\A key \in KeysS :
          (SeatInserted(key) \/ TokenIssued(key))
          => StatusIn(licenses, key) = "active"]_vars

\* The state the race leaves: a license that was revoked or deleted while
\* no seat existed has a seat record, and its activate was answered with a
\* token.
C36_SeatOnRevoked ==
    /\ last.op = "activate"
    /\ HasToken(last.resp)
    /\ StatusIn(licenses, last.data.key) \in {"revoked", "deleted"}
    /\ pre.activations = EmptyBag
    /\ ~IsEmpty(SelectActivations(activations, last.data.key))

=============================================================================
